---------------------------- MODULE Spec2Model ----------------------------
(***************************************************************************)
(* A model of iso8601-timestamp: the formatter (format.rs, ts_str.rs) and  *)
(* the parser (parse.rs) of ISO-8601 timestamps.                           *)
(*                                                                         *)
(* Bytes are the naturals 0..255 and a byte string is a sequence of them.  *)
(* The code indexes from 0, sequences from 1: Get and Put take the code's  *)
(* 0-based index.  TLC's integers are 32-bit signed, so a u32 that may     *)
(* exceed 2^31-1 is kept as its four little-endian bytes.                  *)
(* An Option is a sequence of length at most one: None is << >> and        *)
(* Some(x) is <<x>>.                                                       *)
(***************************************************************************)
EXTENDS Integers, Sequences, FiniteSets, TLC

None == << >>
Some(x) == <<x>>
IsSome(o) == Len(o) = 1
Unwrap(o) == o[1]

\* b.get(i) on a slice
Get(b, i) == IF i >= 0 /\ i < Len(b) THEN Some(b[i + 1]) ELSE None
\* b.get(from..to) on a slice
GetRange(b, from, to) ==
    IF from <= to /\ to <= Len(b) THEN Some(SubSeq(b, from + 1, to)) ELSE None
\* buf[i] = v
Put(buf, i, v) == [buf EXCEPT ![i + 1] = v]

\* the ASCII code of each character the code and its tests name
Ascii ==
    (" " :> 32) @@ ("!" :> 33) @@ ("#" :> 35) @@ ("+" :> 43) @@
    ("," :> 44) @@ ("-" :> 45) @@ ("." :> 46) @@ ("0" :> 48) @@
    ("1" :> 49) @@ ("2" :> 50) @@ ("3" :> 51) @@ ("4" :> 52) @@
    ("5" :> 53) @@ ("6" :> 54) @@ ("7" :> 55) @@ ("8" :> 56) @@
    ("9" :> 57) @@ (":" :> 58) @@ (";" :> 59) @@ ("?" :> 63) @@
    ("A" :> 65) @@ ("B" :> 66) @@ ("C" :> 67) @@ ("D" :> 68) @@
    ("E" :> 69) @@ ("F" :> 70) @@ ("G" :> 71) @@ ("H" :> 72) @@
    ("I" :> 73) @@ ("J" :> 74) @@ ("K" :> 75) @@ ("L" :> 76) @@
    ("M" :> 77) @@ ("N" :> 78) @@ ("O" :> 79) @@ ("P" :> 80) @@
    ("Q" :> 81) @@ ("R" :> 82) @@ ("S" :> 83) @@ ("T" :> 84) @@
    ("U" :> 85) @@ ("V" :> 86) @@ ("W" :> 87) @@ ("X" :> 88) @@
    ("Y" :> 89) @@ ("Z" :> 90) @@ ("_" :> 95) @@ ("a" :> 97) @@
    ("b" :> 98) @@ ("c" :> 99) @@ ("d" :> 100) @@ ("e" :> 101) @@
    ("f" :> 102) @@ ("g" :> 103) @@ ("h" :> 104) @@ ("i" :> 105) @@
    ("j" :> 106) @@ ("k" :> 107) @@ ("l" :> 108) @@ ("m" :> 109) @@
    ("n" :> 110) @@ ("o" :> 111) @@ ("p" :> 112) @@ ("q" :> 113) @@
    ("r" :> 114) @@ ("s" :> 115) @@ ("t" :> 116) @@ ("u" :> 117) @@
    ("v" :> 118) @@ ("w" :> 119) @@ ("x" :> 120) @@ ("y" :> 121) @@
    ("z" :> 122)

\* the bytes of an ASCII string literal
Str(s) == [k \in 1..Len(s) |-> Ascii[SubSeq(s, k, k)]]

\* / and % of Rust on signed integers: truncation toward zero, and a
\* remainder with the sign of the dividend
Abs(a) == IF a < 0 THEN -a ELSE a
Quot(a, n) == IF a >= 0 THEN a \div n ELSE -((-a) \div n)
Rem(a, n) == IF a >= 0 THEN a % n ELSE -((-a) % n)

Min(S) == CHOOSE m \in S : \A k \in S : m <= k

(***************************************************************************)
(* Bit operations.  AndNib and OrNib are the 4-bit tables; BitAnd and      *)
(* BitOr work on naturals below 2^31 a nibble at a time.                   *)
(***************************************************************************)
AndNib[a \in 0..15, c \in 0..15] ==
    LET bit(v, k) == (v \div (2^k)) % 2
    IN  bit(a,0)*bit(c,0) + 2*bit(a,1)*bit(c,1) + 4*bit(a,2)*bit(c,2) + 8*bit(a,3)*bit(c,3)

OrNib[a \in 0..15, c \in 0..15] == a + c - AndNib[a, c]

RECURSIVE BitAnd(_, _)
BitAnd(a, c) ==
    IF a = 0 \/ c = 0 THEN 0
    ELSE AndNib[a % 16, c % 16] + 16 * BitAnd(a \div 16, c \div 16)

RECURSIVE BitOr(_, _)
BitOr(a, c) ==
    IF a = 0 THEN c ELSE IF c = 0 THEN a
    ELSE OrNib[a % 16, c % 16] + 16 * BitOr(a \div 16, c \div 16)

(***************************************************************************)
(* The calendar of the time crate, by its contract: the proleptic          *)
(* Gregorian calendar, years MinYear..MaxYear.  A Date is a year and an    *)
(* ordinal day (1..=366), as the crate stores it; a PrimitiveDateTime adds *)
(* hour, minute, second and nanosecond.                                    *)
(***************************************************************************)
MaxYear == 9999
MinYear == -MaxYear

time_is_leap_year(y) == y % 4 = 0 /\ (y % 100 # 0 \/ y % 400 = 0)
days_in_year(y) == IF time_is_leap_year(y) THEN 366 ELSE 365
days_in_month(y, m) ==
    IF m = 2 THEN (IF time_is_leap_year(y) THEN 29 ELSE 28)
    ELSE IF m \in {4, 6, 9, 11} THEN 30 ELSE 31

RECURSIVE days_before_month(_, _)
days_before_month(y, m) ==
    IF m <= 1 THEN 0 ELSE days_before_month(y, m - 1) + days_in_month(y, m - 1)

\* Date::from_calendar_date(year, month, day): Err unless the date exists
from_calendar_date(y, m, d) ==
    IF /\ y >= MinYear /\ y <= MaxYear
       /\ m >= 1 /\ m <= 12
       /\ d >= 1 /\ d <= days_in_month(y, m)
    THEN Some([year |-> y, ordinal |-> days_before_month(y, m) + d])
    ELSE None

\* Date::to_calendar_date (the scalar conversion)
time_to_calendar_date(date) ==
    LET m == Min({k \in 1..12 : date.ordinal <= days_before_month(date.year, k + 1)})
    IN  <<date.year, m, date.ordinal - days_before_month(date.year, m)>>

\* Time::from_hms_nano(hour, minute, second, nanosecond)
from_hms_nano(h, mi, s, n) ==
    IF h <= 23 /\ mi <= 59 /\ s <= 59 /\ n <= 999999999
    THEN Some([hour |-> h, minute |-> mi, second |-> s, nanosecond |-> n])
    ELSE None

\* PrimitiveDateTime::new(date, time)
NewDateTime(date, time) ==
    [year |-> date.year, ordinal |-> date.ordinal, hour |-> time.hour,
     minute |-> time.minute, second |-> time.second, nanosecond |-> time.nanosecond]

MIDNIGHT == [hour |-> 0, minute |-> 0, second |-> 0, nanosecond |-> 0]

\* PrimitiveDateTime::checked_add(Duration::seconds(secs)): None when the
\* result leaves MinYear..MaxYear.  |secs| is below a year here.
checked_add(dt, secs) ==
    LET sod == dt.hour * 3600 + dt.minute * 60 + dt.second + secs
        dd == sod \div 86400
        rest == sod % 86400
        ord == dt.ordinal + dd
        y == IF ord < 1 THEN dt.year - 1
             ELSE IF ord > days_in_year(dt.year) THEN dt.year + 1 ELSE dt.year
        o == IF ord < 1 THEN ord + days_in_year(dt.year - 1)
             ELSE IF ord > days_in_year(dt.year) THEN ord - days_in_year(dt.year) ELSE ord
    IN  IF y < MinYear \/ y > MaxYear THEN None
        ELSE Some([year |-> y, ordinal |-> o, hour |-> rest \div 3600,
                   minute |-> (rest % 3600) \div 60, second |-> rest % 60,
                   nanosecond |-> dt.nanosecond])

(***************************************************************************)
(* format.rs: calendar decomposition                                       *)
(***************************************************************************)
\* the test of divisibility by 4 alone
is_leap_year_julian(year) ==
    Rem(year, 4) = 0

\* is_leap_year of format.rs, on Rust's remainder
is_leap_year(year) ==
    (Rem(year, 4) = 0) /\ ((Rem(year, 25) # 0) \/ (Rem(year, 16) = 0))

I16_MAX == 32767

\* _mm256_set_epi16 lists its lanes from the highest to the lowest: lane k
\* of the vector is the number of days before month k+1
Thresholds(leap) ==
    IF leap
    THEN <<0, 31, 60, 91, 121, 152, 182, 213, 244, 274, 305, 335,
           I16_MAX, I16_MAX, I16_MAX, I16_MAX>>
    ELSE <<0, 31, 59, 90, 120, 151, 181, 212, 243, 273, 304, 334,
           I16_MAX, I16_MAX, I16_MAX, I16_MAX>>

\* one lane of _mm_subs_epu16: unsigned saturating subtraction
subs_epu16(a, c) == IF a > c THEN a - c ELSE 0

\* _mm_movemask_epi8(_mm_cmpeq_epi16(v, 0)).trailing_zeros(): each 16-bit
\* lane that is zero sets two bits of the mask; 32 when no lane is zero
TrailingZeros(lanes) ==
    LET zero == {k \in 1..Len(lanes) : lanes[k] = 0}
    IN  IF zero = {} THEN 32 ELSE 2 * (Min(zero) - 1)

to_calendar_date_avx2(date) ==
    LET year == date.year
        thr == Thresholds(is_leap_year(year))
        days == [k \in 1..16 |-> subs_epu16(date.ordinal, thr[k])]
        month == TrailingZeros(days) \div 2
        day == days[(month - 1) + 1]
    IN  <<year, month, day>>

\* the mask built from the low half alone
to_calendar_date_sse2_low_half(date) ==
    LET year == date.year
        thr == Thresholds(is_leap_year(year))
        ld == [k \in 1..8 |-> subs_epu16(date.ordinal, thr[k])]
        hd == [k \in 1..8 |-> subs_epu16(date.ordinal, thr[8 + k])]
        lm == TrailingZeros(ld)
        tz == lm
        month == tz \div 2
        day == (ld \o hd)[(month - 1) + 1]
    IN  <<year, month, day>>

to_calendar_date_sse2(date) ==
    LET year == date.year
        thr == Thresholds(is_leap_year(year))
        ld == [k \in 1..8 |-> subs_epu16(date.ordinal, thr[k])]
        hd == [k \in 1..8 |-> subs_epu16(date.ordinal, thr[8 + k])]
        lm == TrailingZeros(ld)
        hm == TrailingZeros(hd)
        \* ((hm << 16) | lm).trailing_zeros()
        tz == IF lm < 32 THEN lm ELSE IF hm < 32 THEN 16 + hm ELSE 32
        month == tz \div 2
        day == (ld \o hd)[(month - 1) + 1]
    IN  <<year, month, day>>

\* the build picks one implementation by target feature
Simd == {"avx2", "sse2", "none"}
to_calendar_date(date, simd) ==
    CASE simd = "avx2" -> to_calendar_date_avx2(date)
      [] simd = "sse2" -> to_calendar_date_sse2(date)
      [] OTHER -> time_to_calendar_date(date)

(***************************************************************************)
(* ts_str.rs: the layout F (punctuated), O (offset), P (fraction digits)   *)
(***************************************************************************)
I(bit) == IF bit THEN 1 ELSE 0
\* three bytes for the punctuation
F4_three(F) == I(F) * 3
F4(F) == I(F) * 4
O5(O) == I(O) * 5
P17(P) == P + 17
P18(P) == P17(P) + I(P > 0)
F4O5(F, O) == F4(F) + O5(O)
\* the length without the byte of the '.'
StrLen_no_point(F, O, P) == P17(P) + F4O5(F, O)
StrLen(F, O, P) == P18(P) + F4O5(F, O)

\* the skeleton literal of each layout
template(F, O, P) ==
    CASE F /\ O /\ P = 0    -> Str("+0000-00-00T00:00:00+00:00")
      [] F /\ O /\ P = 1    -> Str("+0000-00-00T00:00:00.0+00:00")
      [] F /\ O /\ P = 2    -> Str("+0000-00-00T00:00:00.00+00:00")
      [] F /\ O /\ P = 3    -> Str("+0000-00-00T00:00:00.000+00:00")
      [] F /\ O /\ P = 4    -> Str("+0000-00-00T00:00:00.0000+00:00")
      [] F /\ O /\ P = 5    -> Str("+0000-00-00T00:00:00.00000+00:00")
      [] F /\ O /\ P = 6    -> Str("+0000-00-00T00:00:00.000000+00:00")
      [] F /\ O /\ P = 7    -> Str("+0000-00-00T00:00:00.0000000+00:00")
      [] F /\ O /\ P = 8    -> Str("+0000-00-00T00:00:00.00000000+00:00")
      [] F /\ O /\ P = 9    -> Str("+0000-00-00T00:00:00.000000000+00:00")
      [] F /\ ~O /\ P = 0   -> Str("+0000-00-00T00:00:00Z")
      [] F /\ ~O /\ P = 1   -> Str("+0000-00-00T00:00:00.0Z")
      [] F /\ ~O /\ P = 2   -> Str("+0000-00-00T00:00:00.00Z")
      [] F /\ ~O /\ P = 3   -> Str("+0000-00-00T00:00:00.000Z")
      [] F /\ ~O /\ P = 4   -> Str("+0000-00-00T00:00:00.0000Z")
      [] F /\ ~O /\ P = 5   -> Str("+0000-00-00T00:00:00.00000Z")
      [] F /\ ~O /\ P = 6   -> Str("+0000-00-00T00:00:00.000000Z")
      [] F /\ ~O /\ P = 7   -> Str("+0000-00-00T00:00:00.0000000Z")
      [] F /\ ~O /\ P = 8   -> Str("+0000-00-00T00:00:00.00000000Z")
      [] F /\ ~O /\ P = 9   -> Str("+0000-00-00T00:00:00.000000000Z")
      [] ~F /\ O /\ P = 0   -> Str("+00000000T000000+00:00")
      [] ~F /\ O /\ P = 1   -> Str("+00000000T000000.0+00:00")
      [] ~F /\ O /\ P = 2   -> Str("+00000000T000000.00+00:00")
      [] ~F /\ O /\ P = 3   -> Str("+00000000T000000.000+00:00")
      [] ~F /\ O /\ P = 4   -> Str("+00000000T000000.0000+00:00")
      [] ~F /\ O /\ P = 5   -> Str("+00000000T000000.00000+00:00")
      [] ~F /\ O /\ P = 6   -> Str("+00000000T000000.000000+00:00")
      [] ~F /\ O /\ P = 7   -> Str("+00000000T000000.0000000+00:00")
      [] ~F /\ O /\ P = 8   -> Str("+00000000T000000.00000000+00:00")
      [] ~F /\ O /\ P = 9   -> Str("+00000000T000000.000000000+00:00")
      [] ~F /\ ~O /\ P = 0  -> Str("+00000000T000000Z")
      [] ~F /\ ~O /\ P = 1  -> Str("+00000000T000000.0Z")
      [] ~F /\ ~O /\ P = 2  -> Str("+00000000T000000.00Z")
      [] ~F /\ ~O /\ P = 3  -> Str("+00000000T000000.000Z")
      [] ~F /\ ~O /\ P = 4  -> Str("+00000000T000000.0000Z")
      [] ~F /\ ~O /\ P = 5  -> Str("+00000000T000000.00000Z")
      [] ~F /\ ~O /\ P = 6  -> Str("+00000000T000000.000000Z")
      [] ~F /\ ~O /\ P = 7  -> Str("+00000000T000000.0000000Z")
      [] ~F /\ ~O /\ P = 8  -> Str("+00000000T000000.00000000Z")
      [] ~F /\ ~O /\ P = 9  -> Str("+00000000T000000.000000000Z")

\* the view that skips the sign byte whatever it is
as_ref_skip_sign(bytes) ==
    SubSeq(bytes, 2, Len(bytes))

\* TimestampStr::as_ref: skip the sign byte when it is '+'
as_ref(bytes) ==
    LET is_positive == bytes[1] = Ascii["+"]
    IN  SubSeq(bytes, I(is_positive) + 1, Len(bytes))

(***************************************************************************)
(* format.rs: do_format.  The formatter's state is the buffer, the         *)
(* position counter and what went wrong: "ub" when a condition handed to   *)
(* assume! is false, "panic" when a slice or index leaves the buffer.      *)
(***************************************************************************)
Pow10(k) == 10^k

Worse(f, g) == IF f # "none" THEN f ELSE g

\* Op applied to the value of x, with x evaluated once
Eval(x, Op(_)) == CHOOSE y \in {Op(v) : v \in {x}} : TRUE

\* buf[i] = v on the slice &mut buf[pos..]
PutAt(st, pos, i, v) ==
    Eval(st, LAMBDA s :
        IF s.fault # "none" THEN s
        ELSE IF pos + i >= Len(s.buf) THEN [s EXCEPT !.fault = "panic"]
        ELSE [s EXCEPT !.buf = Put(s.buf, pos + i, v)])

\* the two-digits-per-iteration loop of write_num!
RECURSIVE write_pairs(_, _, _, _)
write_pairs(st, pos, value, len) ==
    IF len >= 2
    THEN LET d1 == value % 100
             a == d1 \div 10
             c == d1 % 10
             s1 == PutAt(st, pos, len - 1, BitOr(c, Ascii["0"]))
             s2 == PutAt(s1, pos, len - 2, BitOr(a, Ascii["0"]))
         IN  write_pairs(s2, pos, value \div 100, len - 2)
    ELSE IF len = 1
         THEN PutAt(st, pos, 0, ((value % 256) + Ascii["0"]) % 256)
         ELSE st

\* write_num!(value, len, max)
write_num(st, F, value, len, max) ==
    Eval(st, LAMBDA s :
        write_pairs([s EXCEPT !.fault = Worse(s.fault,
                                  IF value > max THEN "ub"
                                  ELSE IF s.pos > Len(s.buf) THEN "panic" ELSE "none"),
                              !.pos = s.pos + len + I(F)],
                    s.pos, value, len))

\* the position never advanced over a separator
Skip_never(st, cond) == st

Skip(st, cond) == Eval(st, LAMBDA s : IF cond THEN [s EXCEPT !.pos = s.pos + 1] ELSE s)

\* the offset written without its sign
write_offset_unsigned(st, offset, F) ==
    Eval(Skip(st, ~F), LAMBDA s8 :
        write_num(Skip(write_num(s8, F, Abs(offset.hours), 2, 23), ~F),
                  F, Abs(offset.minutes), 2, 59))

\* if O { ... }: the sign, hours and minutes of the offset
write_offset(st, offset, F) ==
    Eval(Skip(st, ~F), LAMBDA s8 :
        LET neg_off == offset.hours < 0 \/ offset.minutes < 0
            st9 == IF neg_off THEN PutAt(s8, 0, s8.pos - 1, Ascii["-"]) ELSE s8
            st10 == Skip(write_num(st9, F, Abs(offset.hours), 2, 23), ~F)
        IN  write_num(st10, F, Abs(offset.minutes), 2, 59))

\* the fields with the fraction rounded to the nearest digit
write_fields_rounded(ts, ymd, offset, F, O, P) ==
    LET neg == ymd[1] < 0
        year == IF neg THEN -ymd[1] ELSE ymd[1]
        t0 == template(F, O, P)
        st0 == [buf |-> IF neg THEN Put(t0, 0, Ascii["-"]) ELSE t0,
                pos |-> 1, fault |-> "none"]
        st1 == write_num(st0, F, year, 4, 9999)
        st2 == write_num(st1, F, ymd[2], 2, 12)
        st3 == Skip(write_num(st2, F, ymd[3], 2, 31), ~F)
        st4 == write_num(st3, F, ts.hour, 2, 59)
        st5 == write_num(st4, F, ts.minute, 2, 59)
        st6 == Skip(write_num(st5, F, ts.second, 2, 59), ~F /\ P > 0)
        half == IF P < 9 THEN 5 * Pow10(8 - P) ELSE 0
        st7 == IF P >= 1 /\ P <= 9
               THEN write_num(st6, F, (ts.nanosecond + half) \div Pow10(9 - P), P, Pow10(P))
               ELSE st6
    IN  IF O THEN write_offset(st7, offset, F) ELSE st7

\* the fields written after to_calendar_date returned ymd
write_fields(ts, ymd, offset, F, O, P) ==
    LET neg == ymd[1] < 0
        year == IF neg THEN -ymd[1] ELSE ymd[1]
        t0 == template(F, O, P)
        st0 == [buf |-> IF neg THEN Put(t0, 0, Ascii["-"]) ELSE t0,
                pos |-> 1, fault |-> "none"]
        st1 == write_num(st0, F, year, 4, 9999)
        st2 == write_num(st1, F, ymd[2], 2, 12)
        st3 == Skip(write_num(st2, F, ymd[3], 2, 31), ~F)
        st4 == write_num(st3, F, ts.hour, 2, 59)
        st5 == write_num(st4, F, ts.minute, 2, 59)
        st6 == Skip(write_num(st5, F, ts.second, 2, 59), ~F /\ P > 0)
        st7 == IF P >= 1 /\ P <= 9
               THEN write_num(st6, F, ts.nanosecond \div Pow10(9 - P), P, Pow10(P) - 1)
               ELSE st6
    IN  IF O THEN write_offset(st7, offset, F) ELSE st7

do_format(ts, offset, F, O, P, simd) ==
    Eval(to_calendar_date(ts, simd), LAMBDA ymd : write_fields(ts, ymd, offset, F, O, P))

(***************************************************************************)
(* parse.rs: the digit decoders.  A decoder returns its value as an Option *)
(* and a fault: "ub" when a condition handed to assume! is false, "panic"  *)
(* when an arithmetic overflow check of the build fails.                   *)
(***************************************************************************)
Ok(v) == [fault |-> "none", val |-> v]
Fault(f) == [fault |-> f, val |-> None]

\* copy_buf::<N>(s): assume!(s.len() == N), then copy
copy_buf(s, N) == IF Len(s) = N THEN Ok(Some(s)) ELSE Fault("ub")

\* a u32 given by its little-endian bytes, when it is below 2^31
U32(x) == x[1] + 256 * x[2] + 65536 * x[3] + 16777216 * x[4]
U16(x) == x[1] + 256 * x[2]

\* bytewise x - y on little-endian words: the wrapped difference and
\* whether the subtraction borrowed out of the top byte
RECURSIVE SubBytes(_, _, _)
SubBytes(x, y, borrow) ==
    IF x = << >> THEN [bytes |-> << >>, borrow |-> borrow]
    ELSE LET d == x[1] - y[1] - borrow
             r == SubBytes(Tail(x), Tail(y), IF d < 0 THEN 1 ELSE 0)
         IN  [bytes |-> <<d % 256>> \o r.bytes, borrow |-> r.borrow]

\* x.wrapping_add(y) on little-endian words
RECURSIVE AddBytes(_, _, _)
AddBytes(x, y, carry) ==
    IF x = << >> THEN << >>
    ELSE LET s == x[1] + y[1] + carry
         IN  <<s % 256>> \o AddBytes(Tail(x), Tail(y), s \div 256)

\* 0 != (x.wrapping_add(U * (127 - 9)) | x) & (U * 128), U = !0 / 255:
\* every byte of U * 118 is 118 and every byte of U * 128 is 128
HasMore(x) ==
    LET sum == AddBytes(x, [k \in 1..Len(x) |-> 127 - 9], 0)
    IN  \E k \in 1..Len(x) : BitAnd(BitOr(sum[k], x[k]), 128) # 0

overflows2(x) == HasMore(x)
overflows4(x) == HasMore(x)

overflows(s) == \E k \in 1..Len(s) : s[k] < Ascii["0"] \/ s[k] > Ascii["9"]

parse_2(s, verify) ==
    LET buf == copy_buf(s, 2)
        digits == U16(Unwrap(buf.val))
        res == (BitAnd(digits, 3840) \div 256) + (BitAnd(digits, 15) * 10)
    IN  IF buf.fault # "none" THEN buf
        ELSE IF verify /\ overflows(s) THEN Ok(None)
        ELSE Ok(Some(res))

parse_4(s, verify, overflow_checks) ==
    LET buf == copy_buf(s, 4)
        digits == Unwrap(buf.val)
        diff == SubBytes(digits, <<48, 48, 48, 48>>, 0)
        \* digits & 0x0f000f00 and digits & 0x000f000f
        m1 == U32(<<0, BitAnd(digits[2], 15), 0, BitAnd(digits[4], 15)>>)
        m2 == U32(<<BitAnd(digits[1], 15), 0, BitAnd(digits[3], 15), 0>>)
        d1 == (m1 \div 256) + (m2 * 10)
        \* 0x00ff00ff = 16711935
        d2 == (BitAnd(d1, 16711935) \div 65536) + (BitAnd(d1, 255) * 100)
    IN  IF buf.fault # "none" THEN buf
        ELSE IF verify /\ diff.borrow = 1 /\ overflow_checks THEN Fault("panic")
        ELSE IF verify /\ overflows4(diff.bytes) THEN Ok(None)
        ELSE Ok(Some(d2 % 65536))

\* the per-byte loop of FastParse::parse, for the other lengths
RECURSIVE parse_loop(_, _, _, _)
parse_loop(s, num, overflow, verify) ==
    IF s = << >> THEN (IF overflow THEN None ELSE Some(num))
    ELSE LET digit == (s[1] - Ascii["0"]) % 256
         IN  parse_loop(Tail(s), (num * 10) + digit,
                        overflow \/ (verify /\ digit > 9), verify)

\* v as $ty on a decoded value; bits is the width of $ty
Narrow(r, bits) ==
    IF IsSome(r.val) THEN Ok(Some(Unwrap(r.val) % (2^bits))) ELSE r

\* <$ty as FastParse>::parse(s)
FastParse(s, bits, verify, overflow_checks) ==
    IF Len(s) = 2 THEN Narrow(parse_2(s, verify), bits)
    ELSE IF Len(s) = 4 THEN Narrow(parse_4(s, verify, overflow_checks), bits)
    ELSE Ok(parse_loop(s, 0, FALSE, verify))

\* the inner part of parse! that leaves eat_byte in place
parse_chunk_keep_separator(b, o, o1, eat, r) ==
    IF r.fault # "none" \/ ~IsSome(r.val)
    THEN [fault |-> r.fault, val |-> None, offset |-> o]
    ELSE [fault |-> "none", val |-> r.val, offset |-> o1]

\* the inner part of parse!: with the chunk decoded as r, the cursor moves
\* to o1, and past eat_byte when that is the next byte; a chunk that is no
\* number leaves the cursor at o and makes the macro return None
parse_chunk(b, o, o1, eat, r) ==
    IF r.fault # "none" \/ ~IsSome(r.val)
    THEN [fault |-> r.fault, val |-> None, offset |-> o]
    ELSE [fault |-> "none", val |-> r.val,
          offset |-> IF IsSome(eat) /\ Get(b, o1) = eat THEN o1 + 1 ELSE o1]

\* parse!(len, ty, eat_byte) at the cursor offset; eat is None for the
\* two-argument form.  val is None where the macro returns None from
\* parse_iso8601.
parse_field(b, offset, len, bits, eat, verify, overflow_checks) ==
    IF ~IsSome(GetRange(b, offset, offset + len))
    THEN [fault |-> "none", val |-> None, offset |-> offset]
    ELSE parse_chunk(b, offset, offset + len, eat,
                     FastParse(SubSeq(b, offset + 1, offset + len), bits,
                               verify, overflow_checks))

\* the fraction loop with factor divided before the digit is added
RECURSIVE fraction_late_factor(_, _, _, _)
fraction_late_factor(b, offset, nanosecond, factor) ==
    LET c == Get(b, offset)
        d == (Unwrap(c) - Ascii["0"]) % 256
    IN  IF ~IsSome(c) \/ d > 9 THEN [offset |-> offset, nanosecond |-> nanosecond]
        ELSE fraction_late_factor(b, offset + 1, nanosecond + d * (factor \div 10),
                                  factor \div 10)

\* the fraction loop that stops once factor has reached 0
RECURSIVE fraction_nine_digits(_, _, _, _)
fraction_nine_digits(b, offset, nanosecond, factor) ==
    LET c == Get(b, offset)
        d == (Unwrap(c) - Ascii["0"]) % 256
    IN  IF ~IsSome(c) \/ d > 9 \/ factor = 0
        THEN [offset |-> offset, nanosecond |-> nanosecond]
        ELSE fraction_nine_digits(b, offset + 1, nanosecond + d * factor, factor \div 10)

\* the fraction loop: while let Some(&c) = b.get(offset) { ... }
RECURSIVE fraction(_, _, _, _)
fraction(b, offset, nanosecond, factor) ==
    LET c == Get(b, offset)
        d == (Unwrap(c) - Ascii["0"]) % 256
    IN  IF ~IsSome(c) \/ d > 9 THEN [offset |-> offset, nanosecond |-> nanosecond]
        ELSE fraction(b, offset + 1, nanosecond + d * factor, factor \div 10)

(***************************************************************************)
(* The state.  The build: verify is the cargo feature, overflow_checks the *)
(* profile's integer overflow checks.  ts, utc_offset and layout are the   *)
(* arguments of format_raw and buf its result.  b is the input of          *)
(* parse_iso8601, offset its cursor, fld its numeric locals, ymd and       *)
(* date_time its Date and PrimitiveDateTime, ret the value it returned     *)
(* once pc is "done", and fault is "panic" or "ub" once pc is "fault".     *)
(***************************************************************************)
VARIABLES verify, overflow_checks, ts, utc_offset, layout, buf,
          b, offset, pc, fld, ymd, date_time, ret, fault,
          calendar, leap, wire, decoded

build == <<verify, overflow_checks>>
fmt == <<ts, utc_offset, layout, buf>>
\* the results of the calls that take no text: the calendar decomposition
\* of a date, the leap-year tests of a year, a value sent as milliseconds,
\* a chunk of bytes put through the digit decoders
unit == <<calendar, leap, wire, decoded>>
vars == <<verify, overflow_checks, ts, utc_offset, layout, buf,
          b, offset, pc, fld, ymd, date_time, ret, fault, calendar, leap, wire,
          decoded>>

NoFields ==
    [negate |-> 0, year |-> 0, month |-> 0, day |-> 0, hour |-> 0,
     minute |-> 0, second |-> 0, nanosecond |-> 0]

Init ==
    /\ verify \in BOOLEAN
    /\ overflow_checks \in BOOLEAN
    /\ ts = None /\ utc_offset = None /\ layout = None /\ buf = << >>
    /\ b = << >> /\ offset = 0 /\ pc = "idle" /\ fld = NoFields
    /\ ymd = None /\ date_time = None /\ ret = None /\ fault = "none"
    /\ calendar = None /\ leap = None /\ wire = None /\ decoded = None

(***************************************************************************)
(* parse_iso8601, one action per field of the grammar                      *)
(***************************************************************************)
\* return v from parse_iso8601 with the cursor at o
Return(v, o) ==
    /\ pc' = "done" /\ ret' = v /\ offset' = o
    /\ UNCHANGED <<fld, ymd, date_time, fault>>

\* the call does not return: a panic, or undefined behaviour
Abort(f) ==
    /\ pc' = "fault" /\ fault' = f
    /\ UNCHANGED <<offset, fld, ymd, date_time, ret>>

\* a parse! step: store the decoded value with set(fld, value), go to next
Field(r, set(_, _), next) ==
    IF r.fault # "none" THEN Abort(r.fault)
    ELSE IF ~IsSome(r.val) THEN Return(None, r.offset)
    ELSE /\ fld' = set(fld, Unwrap(r.val))
         /\ offset' = r.offset /\ pc' = next
         /\ UNCHANGED <<ymd, date_time, ret, fault>>

\* the year left as parsed
conditional_negate_skipped(year, negate) == year

\* (year ^ -negate) + negate on i16: x ^ -1 is -x - 1
conditional_negate(year, negate) ==
    (IF negate = 1 THEN -year - 1 ELSE year) + negate

ParseSign ==
    /\ pc = "sign"
    /\ LET negate == I(Get(b, 0) = Some(Ascii["-"]))
       IN  /\ fld' = [fld EXCEPT !.negate = negate]
           /\ offset' = negate
    /\ pc' = "year"
    /\ UNCHANGED <<build, unit, fmt, b, ymd, date_time, ret, fault>>

ParseYear ==
    /\ pc = "year"
    /\ LET set(f, v) == [f EXCEPT !.year = conditional_negate(v, f.negate)]
       IN  Field(parse_field(b, offset, 4, 16, Some(Ascii["-"]), verify, overflow_checks),
                 set, "month")
    /\ UNCHANGED <<build, unit, fmt, b>>

ParseMonth ==
    /\ pc = "month"
    /\ LET set(f, v) == [f EXCEPT !.month = v]
       IN  Field(parse_field(b, offset, 2, 8, Some(Ascii["-"]), verify, overflow_checks),
                 set, "day")
    /\ UNCHANGED <<build, unit, fmt, b>>

ParseDay ==
    /\ pc = "day"
    /\ LET set(f, v) == [f EXCEPT !.day = v]
       IN  Field(parse_field(b, offset, 2, 8, None, verify, overflow_checks),
                 set, "ymd")
    /\ UNCHANGED <<build, unit, fmt, b>>

\* the month match with December as its default arm
MakeDate_default_month ==
    /\ pc = "ymd"
    /\ LET date == from_calendar_date(fld.year,
                                      IF fld.month \in 1..12 THEN fld.month ELSE 12,
                                      fld.day)
       IN  IF IsSome(date)
           THEN /\ ymd' = date /\ pc' = "sep"
                /\ UNCHANGED <<offset, fld, date_time, ret, fault>>
           ELSE Return(None, offset)
    /\ UNCHANGED <<build, unit, fmt, b>>

\* Date::from_calendar_date(year, match month { 1..=12, _ => return None }, day).ok()?
MakeDate ==
    /\ pc = "ymd"
    /\ LET date == IF fld.month \in 1..12
                   THEN from_calendar_date(fld.year, fld.month, fld.day)
                   ELSE None
       IN  IF IsSome(date)
           THEN /\ ymd' = date /\ pc' = "sep"
                /\ UNCHANGED <<offset, fld, date_time, ret, fault>>
           ELSE Return(None, offset)
    /\ UNCHANGED <<build, unit, fmt, b>>

\* the match that takes any byte after the day as the separator
DateSep_any_separator ==
    /\ pc = "sep"
    /\ LET c == Get(b, offset)
       IN  IF c = None
           THEN Return(Some(NewDateTime(Unwrap(ymd), MIDNIGHT)), offset)
           ELSE /\ offset' = offset + 1 /\ pc' = "hour"
                /\ UNCHANGED <<fld, ymd, date_time, ret, fault>>
    /\ UNCHANGED <<build, unit, fmt, b>>

\* match b.get(offset): the separator, or the end of a date-only input
DateSep ==
    /\ pc = "sep"
    /\ LET c == Get(b, offset)
       IN  IF c \in {Some(Ascii["T"]), Some(Ascii["t"]), Some(Ascii[" "]), Some(Ascii["_"])}
           THEN /\ offset' = offset + 1 /\ pc' = "hour"
                /\ UNCHANGED <<fld, ymd, date_time, ret, fault>>
           ELSE IF c = None
                THEN Return(Some(NewDateTime(Unwrap(ymd), MIDNIGHT)), offset)
                ELSE Return(None, offset)
    /\ UNCHANGED <<build, unit, fmt, b>>

ParseHour ==
    /\ pc = "hour"
    /\ LET set(f, v) == [f EXCEPT !.hour = v]
       IN  Field(parse_field(b, offset, 2, 8, Some(Ascii[":"]), verify, overflow_checks),
                 set, "minute")
    /\ UNCHANGED <<build, unit, fmt, b>>

ParseMinute ==
    /\ pc = "minute"
    /\ LET set(f, v) == [f EXCEPT !.minute = v]
       IN  Field(parse_field(b, offset, 2, 8, Some(Ascii[":"]), verify, overflow_checks),
                 set, "second")
    /\ UNCHANGED <<build, unit, fmt, b>>

\* the clamp that sets the second to 59 and keeps the parsed fraction
clamp_keep_fraction(second, nanosecond, o, vfy) ==
    IF second > 59
    THEN IF vfy /\ second > 60
         THEN [fault |-> "none", ret |-> TRUE, offset |-> o, second |-> 0, nanosecond |-> 0]
         ELSE [fault |-> "none", ret |-> FALSE, offset |-> o,
               second |-> 59, nanosecond |-> nanosecond]
    ELSE [fault |-> "none", ret |-> FALSE, offset |-> o,
          second |-> second, nanosecond |-> nanosecond]

\* the clamp with the strict check applied in every build
clamp_always_strict(second, nanosecond, o, vfy) ==
    IF second > 59
    THEN IF second > 60
         THEN [fault |-> "none", ret |-> TRUE, offset |-> o, second |-> 0, nanosecond |-> 0]
         ELSE [fault |-> "none", ret |-> FALSE, offset |-> o,
               second |-> 59, nanosecond |-> 999999999]
    ELSE [fault |-> "none", ret |-> FALSE, offset |-> o,
          second |-> second, nanosecond |-> nanosecond]

\* if unlikely!(second > 59): the leap-second clamp, with the cursor at o
clamp(second, nanosecond, o, vfy) ==
    IF second > 59
    THEN IF vfy /\ second > 60
         THEN [fault |-> "none", ret |-> TRUE, offset |-> o, second |-> 0, nanosecond |-> 0]
         ELSE [fault |-> "none", ret |-> FALSE, offset |-> o,
               second |-> 59, nanosecond |-> 999999999]
    ELSE [fault |-> "none", ret |-> FALSE, offset |-> o,
          second |-> second, nanosecond |-> nanosecond]

clamp_fraction(second, fr, vfy) == clamp(second, fr.nanosecond, fr.offset, vfy)

\* the seconds field decoded as r, then the fraction and the clamp
seconds_field(bb, r, vfy) ==
    IF r.fault # "none" \/ ~IsSome(r.val)
    THEN [fault |-> r.fault, ret |-> TRUE, offset |-> r.offset,
          second |-> 0, nanosecond |-> 0]
    ELSE IF Get(bb, r.offset) \in {Some(Ascii["."]), Some(Ascii[","])}
         THEN clamp_fraction(Unwrap(r.val), fraction(bb, r.offset + 1, 0, 100000000), vfy)
         ELSE clamp(Unwrap(r.val), 0, r.offset, vfy)

\* the seconds block that returns None when no digit follows the minutes
seconds_required(bb, o, vfy, chk) ==
    LET c == Get(bb, o)
    IN  IF IsSome(c) /\ Unwrap(c) >= Ascii["0"] /\ Unwrap(c) <= Ascii["9"]
        THEN seconds_field(bb, parse_field(bb, o, 2, 8, None, vfy, chk), vfy)
        ELSE [fault |-> "none", ret |-> TRUE, offset |-> o,
              second |-> 0, nanosecond |-> 0]

\* the seconds block: if let Some(b'0'..=b'9') = b.get(offset) { ... }.
\* ret is TRUE where the block returns None from parse_iso8601.
seconds(bb, o, vfy, chk) ==
    LET c == Get(bb, o)
    IN  IF IsSome(c) /\ Unwrap(c) >= Ascii["0"] /\ Unwrap(c) <= Ascii["9"]
        THEN seconds_field(bb, parse_field(bb, o, 2, 8, None, vfy, chk), vfy)
        ELSE [fault |-> "none", ret |-> FALSE, offset |-> o,
              second |-> 0, nanosecond |-> 0]

SecondsDone(r) ==
    IF r.fault # "none" THEN Abort(r.fault)
    ELSE IF r.ret THEN Return(None, r.offset)
    ELSE /\ fld' = [fld EXCEPT !.second = r.second, !.nanosecond = r.nanosecond]
         /\ offset' = r.offset /\ pc' = "time"
         /\ UNCHANGED <<ymd, date_time, ret, fault>>

ParseSecond ==
    /\ pc = "second"
    /\ SecondsDone(seconds(b, offset, verify, overflow_checks))
    /\ UNCHANGED <<build, unit, fmt, b>>

\* assume!(nanosecond <= 999_999_999 && second <= 59), then Time::from_hms_nano
MakeTime ==
    /\ pc = "time"
    /\ LET time == from_hms_nano(fld.hour, fld.minute, fld.second, fld.nanosecond)
       IN  IF ~(fld.nanosecond <= 999999999 /\ fld.second <= 59) THEN Abort("ub")
           ELSE IF IsSome(time)
                THEN /\ date_time' = Some(NewDateTime(Unwrap(ymd), Unwrap(time)))
                     /\ pc' = "zone"
                     /\ UNCHANGED <<offset, fld, ymd, ret, fault>>
                ELSE Return(None, offset)
    /\ UNCHANGED <<build, unit, fmt, b>>

ZoneStop(f, o, dt) == [fault |-> f, ret |-> TRUE, offset |-> o, date_time |-> dt]
ZoneGo(o, dt) == [fault |-> "none", ret |-> FALSE, offset |-> o, date_time |-> dt]

\* the shift that keeps the written time when the sum is out of range
zone_shift_saturating(shifted, o, dt) ==
    IF IsSome(shifted) THEN ZoneGo(o, Unwrap(shifted)) ELSE ZoneGo(o, dt)

\* date_time.checked_add(Duration::seconds(offset_seconds))?
zone_shift(shifted, o, dt) ==
    IF IsSome(shifted) THEN ZoneGo(o, Unwrap(shifted)) ELSE ZoneStop("none", o, dt)

\* offset_seconds negated when the sign byte c is '+'
zone_apply_subtract(dt, c, offset_hour, offset_minute, o) ==
    LET secs == 60 * 60 * offset_hour + offset_minute * 60
        offset_seconds == IF c = Ascii["+"] THEN -secs ELSE secs
    IN  zone_shift(checked_add(dt, offset_seconds), o, dt)

\* offset_seconds, negated unless the sign byte c is '+', added to date_time
zone_apply(dt, c, offset_hour, offset_minute, o) ==
    LET secs == 60 * 60 * offset_hour + offset_minute * 60
        offset_seconds == IF c # Ascii["+"] THEN -secs ELSE secs
    IN  zone_shift(checked_add(dt, offset_seconds), o, dt)

\* the offset minutes decoded as om
zone_minute(dt, c, offset_hour, om) ==
    IF om.fault # "none" \/ ~IsSome(om.val) THEN ZoneStop(om.fault, om.offset, dt)
    ELSE zone_apply(dt, c, offset_hour, Unwrap(om.val), om.offset)

\* the offset hours decoded as oh
zone_hour(bb, dt, c, oh, vfy, chk) ==
    IF oh.fault # "none" \/ ~IsSome(oh.val) THEN ZoneStop(oh.fault, oh.offset, dt)
    ELSE zone_minute(dt, c, Unwrap(oh.val),
                     parse_field(bb, oh.offset, 2, 8, None, vfy, chk))

\* the zone suffix that reads U+2212 as a '+'
zone_unicode_plus(bb, o, dt, vfy, chk) ==
    LET tz == Get(bb, o)
        o1 == o + 1
        c == Unwrap(tz)
        minus == GetRange(bb, o1, o1 + 2) = Some(<<136, 146>>)
        o2 == IF c = 226 THEN o1 + 2 ELSE o1
        tc == GetRange(bb, o1, o1 + 2)
    IN  IF tz \in {Some(Ascii["Z"]), Some(Ascii["z"])} THEN ZoneGo(o1, dt)
        ELSE IF tz \in {Some(Ascii["+"]), Some(Ascii["-"]), Some(226)}
        THEN IF c = 226 /\ ~minus THEN ZoneStop("none", o1, dt)
             ELSE zone_hour(bb, dt, IF c = 226 THEN Ascii["+"] ELSE c,
                            parse_field(bb, o2, 2, 8, Some(Ascii[":"]), vfy, chk),
                            vfy, chk)
        ELSE IF tz \in {Some(Ascii["U"]), Some(Ascii["u"])}
        THEN IF ~IsSome(tc) THEN ZoneStop("none", o1, dt)
             ELSE IF \E k \in 1..2 : BitOr(Unwrap(tc)[k], 32) # Str("tc")[k]
                  THEN ZoneStop("none", o1, dt)
                  ELSE ZoneGo(o1 + 2, dt)
        ELSE ZoneStop("none", o1, dt)

\* the zone suffix: tz = b.get(offset), offset += 1, match tz.
\* ret is TRUE where the match returns None from parse_iso8601.
zone(bb, o, dt, vfy, chk) ==
    LET tz == Get(bb, o)
        o1 == o + 1
        c == Unwrap(tz)
        minus == GetRange(bb, o1, o1 + 2) = Some(<<136, 146>>)
        o2 == IF c = 226 THEN o1 + 2 ELSE o1
        tc == GetRange(bb, o1, o1 + 2)
    IN  IF tz \in {Some(Ascii["Z"]), Some(Ascii["z"])} THEN ZoneGo(o1, dt)
        ELSE IF tz \in {Some(Ascii["+"]), Some(Ascii["-"]), Some(226)}
        THEN IF c = 226 /\ ~minus THEN ZoneStop("none", o1, dt)
             ELSE zone_hour(bb, dt, c,
                            parse_field(bb, o2, 2, 8, Some(Ascii[":"]), vfy, chk),
                            vfy, chk)
        ELSE IF tz \in {Some(Ascii["U"]), Some(Ascii["u"])}
        THEN IF ~IsSome(tc) THEN ZoneStop("none", o1, dt)
             ELSE IF \E k \in 1..2 : BitOr(Unwrap(tc)[k], 32) # Str("tc")[k]
                  THEN ZoneStop("none", o1, dt)
                  ELSE ZoneGo(o1 + 2, dt)
        ELSE ZoneStop("none", o1, dt)

ZoneDone(r) ==
    IF r.fault # "none" THEN Abort(r.fault)
    ELSE IF r.ret THEN Return(None, r.offset)
    ELSE /\ date_time' = Some(r.date_time)
         /\ offset' = r.offset /\ pc' = "end"
         /\ UNCHANGED <<fld, ymd, ret, fault>>

ParseZone ==
    /\ pc = "zone"
    /\ ZoneDone(zone(b, offset, Unwrap(date_time), verify, overflow_checks))
    /\ UNCHANGED <<build, unit, fmt, b>>

\* if offset != b.len() { return None }  Some(date_time)
\* the end check left out
CheckEnd_skipped ==
    /\ pc = "end"
    /\ Return(date_time, offset)
    /\ UNCHANGED <<build, unit, fmt, b>>

CheckEnd ==
    /\ pc = "end"
    /\ IF offset # Len(b) THEN Return(None, offset) ELSE Return(date_time, offset)
    /\ UNCHANGED <<build, unit, fmt, b>>

ParseStep ==
    \/ ParseSign \/ ParseYear \/ ParseMonth \/ ParseDay \/ MakeDate \/ DateSep
    \/ ParseHour \/ ParseMinute \/ ParseSecond \/ MakeTime \/ ParseZone \/ CheckEnd

(***************************************************************************)
(* The callers: format_raw followed by parse (test_all_formats,            *)
(* test_parse_iso8601_reflex), and parse on given text.                    *)
(***************************************************************************)
YearSpread == 0
MaxEdits == 1
MaxTrail == 1

Years ==
    {-4, 0} \cup
    UNION {{MinYear + k, MaxYear - k} : k \in 0..YearSpread}

\* the first day, 29 February or 1 March, and the last day
Ordinals(y) == {1, 60, days_in_year(y)}

Times ==
    { [hour |-> 8, minute |-> 23, second |-> 19, nanosecond |-> 120456789],
      [hour |-> 23, minute |-> 59, second |-> 59, nanosecond |-> 999999999] }

Dates == UNION {{[year |-> y, ordinal |-> o] : o \in Ordinals(y)} : y \in Years}

\* datetime!(2014-4-12 4:00 PM) of test_offset and test_all_formats
TestTimestamp ==
    NewDateTime(Unwrap(from_calendar_date(2014, 4, 12)),
                [hour |-> 16, minute |-> 0, second |-> 0, nanosecond |-> 0])

\* Timestamp::UNIX_EPOCH
UNIX_EPOCH == NewDateTime(Unwrap(from_calendar_date(1970, 1, 1)), MIDNIGHT)

Timestamps == {NewDateTime(d, t) : d \in Dates, t \in Times} \cup {TestTimestamp, UNIX_EPOCH}

\* UtcOffset as (hours, minutes) of one sign
UTC == [hours |-> 0, minutes |-> 0]
Offsets ==
    { UTC, [hours |-> 23, minutes |-> 59], [hours |-> -4, minutes |-> -30],
      [hours |-> 0, minutes |-> -30] }

Layouts == {[F |-> F, O |-> O, P |-> P] : F \in BOOLEAN, O \in BOOLEAN, P \in 0..9}

\* the preconfigured formats of lib.rs
FullMilliseconds == [F |-> TRUE, O |-> FALSE, P |-> 3]
FullMillisecondsOffset == [F |-> TRUE, O |-> TRUE, P |-> 3]
ShortMilliseconds == [F |-> FALSE, O |-> FALSE, P |-> 3]

\* Timestamp::format_raw::<F, O, P>(offset)
Format ==
    /\ pc = "idle"
    /\ \E t \in Timestamps, off \in Offsets, l \in Layouts, simd \in Simd :
          \E r \in {do_format(t, off, l.F, l.O, l.P, simd)} :
              /\ ts' = Some(t) /\ utc_offset' = Some(off) /\ layout' = Some(l)
              /\ buf' = r.buf
              /\ fault' = r.fault
              /\ pc' = IF r.fault = "none" THEN "formatted" ELSE "fault"
    /\ UNCHANGED <<build, unit, b, offset, fld, ymd, date_time, ret>>

\* Timestamp::parse(res.as_ref())
ParseFormatted ==
    /\ pc = "formatted"
    /\ b' = as_ref(buf)
    /\ pc' = "sign"
    /\ UNCHANGED <<build, unit, fmt, offset, fld, ymd, date_time, ret, fault>>

MinusSign == <<226, 136, 146>>

\* the fixtures of test_parse_iso8601_variations
Variations ==
    { Str("2021-10-17T02:03:01+00:00"), Str("2021-10-17t02:03:01+10:00"),
      Str("2021-10-17"), Str("20211017"),
      Str("2021-10-17 02:03:01+00:00"), Str("2021-10-17T02:03+00:00"),
      Str("2021-10-17t02:03+10:00"), Str("2021-10-17 02:03+00:00"),
      Str("-2021-10-17T02:03+00:00"), Str("-2021-10-17t02:03+10:00"),
      Str("-2021-10-17 02:03+00:00"), Str("2021-10-17t02:03+00:00"),
      Str("2021-10-17t02:03:01.111+00:00"), Str("2021-10-17T02:03:01-00:00"),
      Str("2021-10-17T02:03:01") \o MinusSign \o Str("04:00"),
      Str("2021-10-17T02:03:01Z"), Str("20211017T020301Z"),
      Str("20211017t020301z"), Str("20211017T0203z"),
      Str("20211017T020301.123Z"), Str("20211017T020301.123+00:00"),
      Str("20211017T020301.123uTc"), Str("2013-10-07 08:23:19.120Z"),
      Str("2013-10-07T08:23:19.120Z"), Str("2013-10-07 08:23:19,120Z"),
      Str("2013-10-07T08:23:19,120Z"), Str("2013-10-07T08:23:19.120"),
      Str("2013-10-07 08:23:19,120"), Str("2013-10-07T08:23:19"),
      Str("2013-10-07 04:23:19.120-04:00") }

\* test_parse_nanoseconds, test_invalid, test_bad_inputs (fuzz.rs)
OtherTests ==
    { Str("2021-11-19T04:12:54.000123Z"), Str("-868686868"),
      Str("9999") \o <<1, 2, 18>> \o Str("UT") \o <<1>> \o Str("92-+?!") \o <<92, 0>>,
      Str("9999") \o <<1, 2, 18>> \o Str(";T") \o <<1>> \o Str("50-+#333") }

\* the examples of the specification, and dates and times out of range
Examples ==
    { Str("2011-06-17T18:30+04:00"), Str("2011-06-17T14:30:00.000Z"),
      Str("2011-06-17T22:30:00.000Z"), Str("-0004-12-16T10:00:00.000Z"),
      Str("2021-13-17T02:03:01Z"), Str("2021-00-17T02:03:01Z"),
      Str("2021-02-30T02:03:01Z"), Str("2021-02-29T02:03:01Z"),
      Str("2020-02-29T02:03:01Z"), Str("2021-04-31"), Str("2021-10-00"),
      Str("2021-10-17T24:03:01Z"), Str("2021-10-17T02:60:01Z"),
      Str("2021-10-17T23:59:60Z"), Str("9999-12-31T23:59:59+00:01"),
      Str("-9999-01-01T00:00:00-00:01"), Str("20211017T0203Z"),
      Str("-0004-12-16T10:00:60UTC"), Str("2021-10-17T23:59:60.123Z"),
      Str("2021-10-17T02:03:61Z"), Str("2021-10-17T02:03:99.5Z"),
      Str("2021-10-17T02:03:6?Z"),
      Str("2021-11-19T04:12:54.0001230004567Z"),
      Str("2021-10-17T02:03:01-04:00"),
      Str("20211017T0203") \o MinusSign \o Str("0430"),
      Str("2021-10-17T02:03:01+24:00"), Str("2021-10-17T02:03:01+00:60"),
      Str("2021-10-17T02:03:01+99:99"),
      MinusSign \o Str("0004-12-16T10:00:00.000Z"),
      Str("+2011-06-17T14:30:00.000Z") }

\* one date and time with each of the four optional separators present or
\* not
Mixed ==
    { Str("2021") \o y \o Str("10") \o m \o Str("17T02") \o h \o Str("03") \o n \o Str("01Z") :
        y \in {<< >>, Str("-")}, m \in {<< >>, Str("-")},
        h \in {<< >>, Str(":")}, n \in {<< >>, Str(":")} }

\* a time without seconds, with and without a ':' after the minutes
MinuteColon == { Str("2021-10-17T02:03:Z"), Str("2021-10-17T02:03Z") }

Fixtures == Variations \cup OtherTests \cup Examples \cup Mixed \cup MinuteColon

\* the inputs a fuzzer (fuzz_targets/parse.rs) builds from a seed: bytes
\* replaced, the input cut short, bytes appended
Seeds == { Str("2021-10-17T02:03:01.5+04:30") }

EditBytes == {1, 47, 58, 226}

RECURSIVE Edited(_, _)
Edited(S, n) ==
    IF n = 0 THEN S
    ELSE Edited(S \cup UNION {{[s EXCEPT ![k] = c] : k \in 1..Len(s), c \in EditBytes} : s \in S},
                n - 1)

Prefixes(S) == UNION {{SubSeq(s, 1, n) : n \in 0..Len(s)} : s \in S}

TrailBytes == {0, 32, 48, 90}

RECURSIVE Appended(_, _)
Appended(S, n) ==
    IF n = 0 THEN S
    ELSE Appended(S \cup {s \o <<c>> : s \in S, c \in TrailBytes}, n - 1)

Inputs ==
    Prefixes(Fixtures) \cup Edited(Seeds, MaxEdits) \cup Appended(Fixtures, MaxTrail)

\* Timestamp::parse(ts) on caller-supplied text
Call ==
    /\ pc = "idle"
    /\ \E input \in Inputs : b' = input
    /\ pc' = "sign"
    /\ UNCHANGED <<build, unit, fmt, offset, fld, ymd, date_time, ret, fault>>

Next == Format \/ ParseFormatted \/ Call \/ ParseStep

Spec == Init /\ [][Next]_vars

(***************************************************************************)
(* impls.rs: Timestamp::to_calendar_date                                   *)
(***************************************************************************)
\* y & (if y % 25 == 0 { 15 } else { 3 }) == 0 on the two's complement of
\* the i32 y: the mask reads its low four bits, which y % 65536 keeps
impls_is_leap_year(y) ==
    BitAnd(y % 65536, IF Rem(y, 25) = 0 THEN 15 ELSE 3) = 0

\* transmute::<u8, Month>(month): the Month of that number
impls_to_calendar_date_avx2(date) ==
    LET year == date.year
        thr == Thresholds(impls_is_leap_year(year))
        days == [k \in 1..16 |-> subs_epu16(date.ordinal, thr[k])]
        month == TrailingZeros(days) \div 2
        day == days[(month - 1) + 1]
    IN  <<year, month, day>>

impls_to_calendar_date_sse2(date) ==
    LET year == date.year
        thr == Thresholds(impls_is_leap_year(year))
        ld == [k \in 1..8 |-> subs_epu16(date.ordinal, thr[k])]
        hd == [k \in 1..8 |-> subs_epu16(date.ordinal, thr[8 + k])]
        lm == TrailingZeros(ld)
        hm == TrailingZeros(hd)
        tz == IF lm < 32 THEN lm ELSE IF hm < 32 THEN 16 + hm ELSE 32
        month == tz \div 2
        day == (ld \o hd)[(month - 1) + 1]
    IN  <<year, month, day>>

impls_to_calendar_date(date, simd) ==
    CASE simd = "avx2" -> impls_to_calendar_date_avx2(date)
      [] simd = "sse2" -> impls_to_calendar_date_sse2(date)
      [] OTHER -> time_to_calendar_date(date)

\* Date::from_ordinal_date(year, ordinal): Err unless the day exists
from_ordinal_date(year, ordinal) ==
    IF year >= MinYear /\ year <= MaxYear /\ ordinal >= 1 /\ ordinal <= days_in_year(year)
    THEN Some([year |-> year, ordinal |-> ordinal])
    ELSE None

\* the years of test_to_calendar_date, the ends of the range, century and
\* 400-year boundaries on both sides of year 0
CalendarYears ==
    {2004, 2005, 2006, MinYear, -2000, -1900, -400, -100, -5, -4, -1, 0, 1, 4,
     100, 400, 1900, 1970, 2000, 2100, MaxYear}

\* test_to_calendar_date: every variant of both files on one date
test_to_calendar_date ==
    /\ pc = "idle" /\ unit = <<None, None, None, None>>
    /\ \E year \in CalendarYears, ordinal \in 0..366 :
          LET date == from_ordinal_date(year, ordinal)
          IN  /\ IsSome(date)
              /\ calendar' = Some([date |-> Unwrap(date),
                              none |-> time_to_calendar_date(Unwrap(date)),
                              avx2 |-> to_calendar_date_avx2(Unwrap(date)),
                              sse2 |-> to_calendar_date_sse2(Unwrap(date)),
                              impls |-> [simd \in Simd |->
                                            impls_to_calendar_date(Unwrap(date), simd)]])
    /\ UNCHANGED <<build, fmt, b, offset, pc, fld, ymd, date_time, ret, fault,
                   leap, wire, decoded>>

\* both is_leap_year functions on one year of the range
LeapYear ==
    /\ pc = "idle" /\ unit = <<None, None, None, None>>
    /\ \E year \in MinYear..MaxYear :
          leap' = Some([year |-> year, format |-> is_leap_year(year),
                        impls |-> impls_is_leap_year(year)])
    /\ UNCHANGED <<build, fmt, b, offset, pc, fld, ymd, date_time, ret, fault,
                   calendar, wire, decoded>>

(***************************************************************************)
(* lib.rs: a Timestamp as milliseconds since the Unix epoch.  A Duration   *)
(* and an i64 of milliseconds are larger than the integers of the model:   *)
(* both are kept as a sign and a magnitude split into whole days and the   *)
(* rest of a day.                                                          *)
(***************************************************************************)
\* the days from 1 January of year 1 to 1 January of year y
DaysBeforeYear(y) ==
    LET p == y - 1
    IN  365 * p + (p \div 4) - (p \div 100) + (p \div 400)

\* Date::to_julian_day, counted from 1970-01-01
EpochDay(date) == DaysBeforeYear(date.year) + date.ordinal - (DaysBeforeYear(1970) + 1)

\* Date::from_julian_day of the day k after 1970-01-01
FromEpochDay(k) ==
    LET first(y) == DaysBeforeYear(y) - DaysBeforeYear(1970)
        guess == 1970 + ((k * 400) \div 146097)
        year == CHOOSE y \in (guess - 1)..(guess + 1) : first(y) <= k /\ k < first(y + 1)
    IN  [year |-> year, ordinal |-> k - first(year) + 1]

SecondOfDay(t) == t.hour * 3600 + t.minute * 60 + t.second

\* Timestamp::duration_since: self.0 - earlier.0, a Duration whose seconds
\* and nanoseconds have the sign of the difference
duration_since(self, earlier) ==
    LET dd == EpochDay(self) - EpochDay(earlier)
        ds == SecondOfDay(self) - SecondOfDay(earlier)
        dn == self.nanosecond - earlier.nanosecond
        neg == dd < 0 \/ (dd = 0 /\ (ds < 0 \/ (ds = 0 /\ dn < 0)))
        sg == IF neg THEN -1 ELSE 1
        s1 == sg * ds + ((sg * dn) \div 1000000000)
    IN  [neg |-> neg,
         days |-> sg * dd + (s1 \div 86400),
         seconds |-> s1 % 86400,
         nanoseconds |-> (sg * dn) % 1000000000]

\* Duration::whole_milliseconds() as i64: seconds * 1000 + nanoseconds /
\* 1_000_000, the division rounding toward zero
whole_milliseconds(d) ==
    LET ms == d.seconds * 1000 + (d.nanoseconds \div 1000000)
    IN  [neg |-> d.neg /\ (d.days # 0 \/ ms # 0), days |-> d.days, ms |-> ms]

\* Duration::milliseconds(v)
milliseconds(v) ==
    [neg |-> v.neg, days |-> v.days, seconds |-> v.ms \div 1000,
     nanoseconds |-> (v.ms % 1000) * 1000000]

\* Timestamp::checked_add(self, duration): None outside MinYear..MaxYear
Timestamp_checked_add(self, duration) ==
    LET sg == IF duration.neg THEN -1 ELSE 1
        n0 == self.nanosecond + sg * duration.nanoseconds
        s0 == SecondOfDay(self) + sg * duration.seconds + (n0 \div 1000000000)
        s1 == s0 % 86400
        date == FromEpochDay(EpochDay(self) + sg * duration.days + (s0 \div 86400))
    IN  IF date.year < MinYear \/ date.year > MaxYear THEN None
        ELSE Some(NewDateTime(date, [hour |-> s1 \div 3600, minute |-> (s1 % 3600) \div 60,
                                     second |-> s1 % 60, nanosecond |-> n0 % 1000000000]))

\* Serialize for Timestamp, the serializer not human readable
serialize(self) == whole_milliseconds(duration_since(self, UNIX_EPOCH))

\* TsVisitor::visit_i64
visit_i64(v) == Timestamp_checked_add(UNIX_EPOCH, milliseconds(v))

\* datetime!(2024-09-01 12:32 PM).replace_millisecond(123) of test_rkyv
RkyvTimestamp ==
    NewDateTime(Unwrap(from_calendar_date(2024, 9, 1)),
                [hour |-> 12, minute |-> 32, second |-> 0, nanosecond |-> 123000000])

\* the last second of 1969 and the first of 1970, with whole and with
\* fractional milliseconds
EpochNanos == {0, 1, 123000000, 123456789, 999000000, 999500000, 999999999}
AroundEpoch ==
    {NewDateTime([year |-> 1969, ordinal |-> 365],
                 [hour |-> 23, minute |-> 59, second |-> 59, nanosecond |-> n]) :
        n \in EpochNanos}
    \cup {NewDateTime([year |-> 1970, ordinal |-> 1],
                      [hour |-> 0, minute |-> 0, second |-> 0, nanosecond |-> n]) :
              n \in EpochNanos}

SentTimestamps == Timestamps \cup AroundEpoch \cup {RkyvTimestamp}

\* a Timestamp written by a binary serializer and read back
BinaryRoundTrip ==
    /\ pc = "idle" /\ unit = <<None, None, None, None>>
    /\ \E t \in SentTimestamps :
          \E v \in {serialize(t)} :
              wire' = Some([ts |-> t, millis |-> v, de |-> visit_i64(v)])
    /\ UNCHANGED <<build, fmt, b, offset, pc, fld, ymd, date_time, ret, fault,
                   calendar, leap, decoded>>

(***************************************************************************)
(* parse.rs: the tests of the digit decoders                               *)
(***************************************************************************)
\* bytes on both sides of '0' and '9', of 9 and 10, of 127 and 128, and of
\* 137 and 138, where adding 118 first carries into the next byte
ByteSamples == {0, 9, 10, 47, 48, 57, 58, 127, 128, 137, 138, 255}

Decimals == Ascii["0"]..Ascii["9"]

\* the chunks of N bytes: every decimal one, and every one of the samples
Chunks(N) ==
    [1..N -> Decimals] \cup [1..N -> ByteSamples]

\* the words of N bytes, least significant byte first: every 16-bit word,
\* and the 32-bit words of the samples
Words(N) ==
    IF N = 2 THEN [1..2 -> 0..255] ELSE [1..N -> ByteSamples]

\* test_parse_int2, test_parse_int4: parse_2 or parse_4 on one chunk
test_parse_int ==
    /\ pc = "idle" /\ unit = <<None, None, None, None>>
    /\ \E N \in {2, 4} : \E s \in Chunks(N) :
          decoded' = Some([s |-> s,
                           parsed |-> IF N = 2 THEN parse_2(s, verify)
                                      ELSE parse_4(s, verify, overflow_checks)])
    /\ UNCHANGED <<build, fmt, b, offset, pc, fld, ymd, date_time, ret, fault,
                   calendar, leap, wire>>

\* test_is_digit: overflows2 or overflows4 on one word
test_is_digit ==
    /\ pc = "idle" /\ unit = <<None, None, None, None>>
    /\ \E N \in {2, 4} : \E x \in Words(N) :
          decoded' = Some([x |-> x,
                           overflows |-> IF N = 2 THEN overflows2(x) ELSE overflows4(x)])
    /\ UNCHANGED <<build, fmt, b, offset, pc, fld, ymd, date_time, ret, fault,
                   calendar, leap, wire>>

UnitNext ==
    test_to_calendar_date \/ LeapYear \/ BinaryRoundTrip \/ test_parse_int \/ test_is_digit

UnitSpec == Init /\ [][UnitNext]_vars

(***************************************************************************)
(* Properties                                                              *)
(***************************************************************************)
\* ts with its nanoseconds cut to P fractional digits
Truncated(t, P) ==
    [t EXCEPT !.nanosecond = t.nanosecond - (t.nanosecond % Pow10(9 - P))]

\* the offset as a number of seconds
OffsetSeconds(off) == off.hours * 3600 + off.minutes * 60

\* C1: for every date-time of years -9999..=9999 and each of the 40
\* layouts, parsing the text formatted with the UTC offset returns the
\* date-time with its nanoseconds truncated to the layout's fractional
\* digits (the same value when there are 9), and neither call faults.
C1_RoundTrip ==
    (IsSome(ts) /\ utc_offset = Some(UTC)) =>
        /\ pc # "fault"
        /\ pc = "done" => ret = Some(Truncated(Unwrap(ts), Unwrap(layout).P))

\* a negative year through the compact layout with offset and 9 digits
C1_Witness ==
    /\ pc = "done" /\ IsSome(ts) /\ utc_offset = Some(UTC)
    /\ Unwrap(layout) = [F |-> FALSE, O |-> TRUE, P |-> 9]
    /\ Unwrap(ts).year < 0 /\ Unwrap(ts).nanosecond = 120456789
    /\ ret = ts

\* C2: parsing the full-milliseconds text of a timestamp succeeds, and
\* formatting the parsed value again gives the identical text, negative
\* years included.
C2_Reflex ==
    (pc = "done" /\ IsSome(ts) /\ utc_offset = Some(UTC)
        /\ layout = Some(FullMilliseconds)) =>
        /\ IsSome(ret)
        /\ \A simd \in Simd :
              do_format(Unwrap(ret), UTC, TRUE, FALSE, 3, simd).buf = buf

\* the reflex on a negative year whose nanoseconds are cut by the format
C2_Witness ==
    /\ pc = "done" /\ IsSome(ts) /\ utc_offset = Some(UTC)
    /\ layout = Some(FullMilliseconds)
    /\ Unwrap(ts).year = -4 /\ IsSome(ret) /\ ret # ts

\* the fixtures that end after the time part with no zone marker
NoZoneFixtures ==
    { Str("2013-10-07T08:23:19"), Str("2013-10-07T08:23:19.120"),
      Str("2013-10-07 08:23:19,120") }

\* C3: an input that ends right after the time part with no zone marker
\* is accepted and parses to the value of the same text followed by Z.
C3_NoZoneIsUtc ==
    (pc = "done" /\ b \in NoZoneFixtures) =>
        ret = Some(NewDateTime(Unwrap(from_calendar_date(2013, 10, 7)),
                               [hour |-> 8, minute |-> 23, second |-> 19,
                                nanosecond |-> IF Len(b) = 19 THEN 0 ELSE 120000000]))

\* C4: "2011-06-17T18:30+04:00" parses to the value of
\* "2011-06-17T14:30:00.000Z", four hours before the written time.
C4_OffsetEarlier ==
    (pc = "done" /\ b = Str("2011-06-17T18:30+04:00")) =>
        ret = Some(NewDateTime(Unwrap(from_calendar_date(2011, 6, 17)),
                               [hour |-> 14, minute |-> 30, second |-> 0,
                                nanosecond |-> 0]))

\* C5 as stated: for every timestamp and offset, parsing the text of a
\* layout with an offset field returns the truncated timestamp shifted by
\* the offset, and the truncated timestamp itself for a layout without one.
C5_OffsetShift ==
    (pc = "done" /\ IsSome(ts)) =>
        /\ IsSome(ret)
        /\ ret = IF Unwrap(layout).O
                 THEN checked_add(Truncated(Unwrap(ts), Unwrap(layout).P),
                                  OffsetSeconds(Unwrap(utc_offset)))
                 ELSE Some(Truncated(Unwrap(ts), Unwrap(layout).P))

\* C5: parsing the text of a layout with an offset field returns the
\* truncated timestamp shifted by the offset ('+HH:MM' added, '-HH:MM'
\* subtracted) when the shifted time lies in years -9999..=9999, and None
\* when it does not; a layout without an offset field returns the truncated
\* timestamp.  Neither call faults.
C5_OffsetShiftInRange ==
    IsSome(ts) =>
        /\ pc # "fault"
        /\ pc = "done" =>
              ret = IF Unwrap(layout).O
                    THEN checked_add(Truncated(Unwrap(ts), Unwrap(layout).P),
                                     OffsetSeconds(Unwrap(utc_offset)))
                    ELSE Some(Truncated(Unwrap(ts), Unwrap(layout).P))

\* midnight written with -04:30 parses to 19:30 of the day before
C5_Witness ==
    /\ pc = "done" /\ IsSome(ts) /\ Unwrap(layout).O
    /\ utc_offset = Some([hours |-> -4, minutes |-> -30])
    /\ Unwrap(ts).hour = 0 /\ IsSome(ret)
    /\ Unwrap(ret).hour = 19 /\ Unwrap(ret).minute = 30
    /\ Unwrap(ret).ordinal # Unwrap(ts).ordinal

\* n as w decimal digits, zero-padded
Digits(n, w) == [k \in 1..w |-> Ascii["0"] + ((n \div Pow10(w - k)) % 10)]

\* the punctuation of the punctuated layouts
Punct(F, s) == IF F THEN Str(s) ELSE << >>

\* the fields of t and off at their places in the layout
Rendered(t, off, F, O, P) ==
    LET cal == time_to_calendar_date(t)
        negative == off.hours < 0 \/ off.minutes < 0
    IN  Str(IF t.year < 0 THEN "-" ELSE "+") \o Digits(Abs(t.year), 4)
        \o Punct(F, "-") \o Digits(cal[2], 2) \o Punct(F, "-") \o Digits(cal[3], 2)
        \o Str("T") \o Digits(t.hour, 2) \o Punct(F, ":") \o Digits(t.minute, 2)
        \o Punct(F, ":") \o Digits(t.second, 2)
        \o (IF P > 0 THEN Str(".") \o Digits(t.nanosecond \div Pow10(9 - P), P)
            ELSE << >>)
        \o (IF O THEN Str(IF negative THEN "-" ELSE "+") \o Digits(Abs(off.hours), 2)
                      \o Str(":") \o Digits(Abs(off.minutes), 2)
            ELSE Str("Z"))

\* C6: do_format returns the layout's skeleton with only the digit and
\* sign positions overwritten: the 4-digit |year|, month, day, hour, minute,
\* second, P fraction digits and, with O, '-' iff the offset is negative
\* before its absolute hours and minutes, the fields written as they are.
\* UNIX_EPOCH in full milliseconds is "1970-01-01T00:00:00.000Z", and
\* 2014-04-12 16:00 with offset -04:30 "2014-04-12T16:00:00.000-04:30".
C6_Skeleton ==
    (IsSome(ts) /\ pc \in {"formatted", "fault"}) =>
        LET l == Unwrap(layout)
            skeleton == template(l.F, l.O, l.P)
        IN  /\ fault = "none"
            /\ buf = Rendered(Unwrap(ts), Unwrap(utc_offset), l.F, l.O, l.P)
            /\ Len(buf) = Len(skeleton)
            /\ \A k \in 1..Len(buf) :
                  skeleton[k] \notin {Ascii["0"], Ascii["+"]} => buf[k] = skeleton[k]
            /\ (ts = Some(UNIX_EPOCH) /\ l = FullMilliseconds)
                  => as_ref(buf) = Str("1970-01-01T00:00:00.000Z")
            /\ (ts = Some(TestTimestamp) /\ l = FullMillisecondsOffset
                  /\ utc_offset = Some([hours |-> -4, minutes |-> -30]))
                  => as_ref(buf) = Str("2014-04-12T16:00:00.000-04:30")

\* the test fixture formatted with its negative offset
C6_Witness ==
    /\ pc = "formatted" /\ ts = Some(TestTimestamp)
    /\ layout = Some(FullMillisecondsOffset)
    /\ utc_offset = Some([hours |-> -4, minutes |-> -30])
    /\ as_ref(buf) = Str("2014-04-12T16:00:00.000-04:30")

\* C7: for every layout the length of the buffer is
\* P + 17 + (1 if P > 0) + 4 F + 5 O, the skeleton literal of the layout has
\* that length, and so has every formatted result; ShortMilliseconds is 21
\* bytes, which is at most 23.
C7_Length ==
    (IsSome(layout) /\ pc = "formatted") =>
        LET l == Unwrap(layout)
            n == l.P + 17 + (IF l.P > 0 THEN 1 ELSE 0)
                 + 4 * (IF l.F THEN 1 ELSE 0) + 5 * (IF l.O THEN 1 ELSE 0)
        IN  /\ StrLen(l.F, l.O, l.P) = n
            /\ Len(template(l.F, l.O, l.P)) = n
            /\ Len(buf) = n
            /\ StrLen(ShortMilliseconds.F, ShortMilliseconds.O, ShortMilliseconds.P) = 21
            /\ Len(template(ShortMilliseconds.F, ShortMilliseconds.O,
                            ShortMilliseconds.P)) <= 23

\* the longest layout: 36 bytes, 35 without the sign
C7_Witness ==
    /\ pc = "formatted" /\ layout = Some([F |-> TRUE, O |-> TRUE, P |-> 9])
    /\ Len(buf) = 36 /\ Len(as_ref(buf)) = 35

\* C8: for every input parse_iso8601 returns Some or None: it does not
\* panic, and no condition handed to assume! is false when reached.
C8_NeverFaults ==
    ts = None => pc # "fault"

\* C9: the cursor never decreases, and parse returns Some only with the
\* cursor at the length of the input, so that a byte left after Z, after
\* the offset minutes or after UTC makes it return None.
C9_Cursor ==
    /\ [](pc = "done" /\ IsSome(ret) => offset = Len(b))
    /\ [][offset' >= offset]_vars

\* None returned with a byte left after the Z
C9_Witness ==
    /\ pc = "done" /\ ret = None /\ offset < Len(b)
    /\ Get(b, offset - 1) = Some(Ascii["Z"])
    /\ IsSome(date_time)

\* C10: parse returns None when the month is outside 1..=12, the day is
\* not a day of that month and year, the hour is above 23 or the minute
\* above 59; "-868686868" is rejected.
C10_Invalid ==
    /\ (pc = "done" /\ IsSome(ret)) =>
          /\ fld.month \in 1..12
          /\ fld.day \in 1..days_in_month(fld.year, fld.month)
          /\ fld.hour <= 23
          /\ fld.minute <= 59
    /\ (pc = "done" /\ b = Str("-868686868")) => ret = None

\* 29 February of a common year, rejected
C10_Witness ==
    /\ pc = "done" /\ ret = None
    /\ fld.year = 2021 /\ fld.month = 2 /\ fld.day = 29

\* c is a decimal digit
IsDigit(c) == IsSome(c) /\ Unwrap(c) >= Ascii["0"] /\ Unwrap(c) <= Ascii["9"]

\* the two bytes at o read as a decimal number, -1 when they are not digits
TwoDigits(bb, o) ==
    IF IsDigit(Get(bb, o)) /\ IsDigit(Get(bb, o + 1))
    THEN 10 * (Unwrap(Get(bb, o)) - Ascii["0"]) + (Unwrap(Get(bb, o + 1)) - Ascii["0"])
    ELSE -1

\* the place after a seconds field at o: after the two digits, or after the
\* point or comma and every digit that follows it
PastSeconds(bb, o) ==
    IF Get(bb, o + 2) \in {Some(Ascii["."]), Some(Ascii[","])}
    THEN CHOOSE k \in (o + 3)..Len(bb) :
            /\ \A j \in (o + 3)..(k - 1) : IsDigit(Get(bb, j))
            /\ ~IsDigit(Get(bb, k))
    ELSE o + 2

\* the last nanosecond of the second 59 of the given minute
LastNano(y, m, d, hour, minute) ==
    NewDateTime(Unwrap(from_calendar_date(y, m, d)),
                [hour |-> hour, minute |-> minute, second |-> 59,
                 nanosecond |-> 999999999])

\* C11: a seconds field of 60, with or without fraction digits, gives second
\* 59 and nanosecond 999,999,999 in every build; the fraction digits are
\* consumed and do not change the value.
C11_LeapSecond ==
    /\ [][(pc = "second" /\ TwoDigits(b, offset) = 60) =>
            /\ pc' = "time"
            /\ fld'.second = 59 /\ fld'.nanosecond = 999999999
            /\ offset' = PastSeconds(b, offset)]_vars
    /\ [](pc = "done" /\ b \in {Str("2021-10-17T23:59:60Z"),
                                 Str("2021-10-17T23:59:60.123Z")}
            => ret = Some(LastNano(2021, 10, 17, 23, 59)))

\* a leap second written with three fraction digits
C11_Witness ==
    /\ pc = "done" /\ b = Str("2021-10-17T23:59:60.123Z")
    /\ ret = Some(LastNano(2021, 10, 17, 23, 59))
    /\ fld.second = 59 /\ fld.nanosecond = 999999999

\* the place of the decimal point in the skeleton of a layout with P > 0
PointAt(F, O, P) ==
    LET skeleton == template(F, O, P)
    IN  CHOOSE k \in 1..Len(skeleton) : skeleton[k] = Ascii["."]

\* C12: for every fraction count P in 1..=9 the fraction written is the
\* P-digit zero-padded floor(n / 10^(9-P)) of the nanoseconds n, and every
\* other byte is the one written for the same timestamp with n = 0, so the
\* seconds and the higher fields do not depend on n; 999,999,999 ns at P = 1
\* prints ".9" after an unchanged seconds field.
C12_Truncation ==
    (IsSome(ts) /\ pc \in {"formatted", "fault"} /\ Unwrap(layout).P >= 1) =>
        LET l == Unwrap(layout)
            t == Unwrap(ts)
            k == PointAt(l.F, l.O, l.P)
            whole == do_format([t EXCEPT !.nanosecond = 0], Unwrap(utc_offset),
                               l.F, l.O, l.P, "none").buf
        IN  /\ fault = "none"
            /\ SubSeq(buf, k + 1, k + l.P) = Digits(t.nanosecond \div Pow10(9 - l.P), l.P)
            /\ [j \in 1..Len(buf) |->
                    IF j \in (k + 1)..(k + l.P) THEN Ascii["0"] ELSE buf[j]] = whole
            /\ SubSeq(buf, k - 2, k - 1) = Digits(t.second, 2)
            /\ (t.nanosecond = 999999999 /\ l.P = 1) => SubSeq(buf, k, k + 1) = Str(".9")

\* 23:59:59.999999999 with one fraction digit: "59.9", not "60.0"
C12_Witness ==
    /\ pc = "formatted" /\ IsSome(ts) /\ Unwrap(layout).P = 1
    /\ Unwrap(ts).nanosecond = 999999999 /\ Unwrap(ts).second = 59
    /\ LET k == PointAt(Unwrap(layout).F, Unwrap(layout).O, 1)
       IN  SubSeq(buf, k - 2, k + 1) = Str("59.9")

\* C13: for every year and every day of the year (1..=365, and 366 in leap
\* years) the vectorized decompositions of format.rs and impls.rs return the
\* (year, month, day) of the standard calendar conversion, which is the
\* calendar date of that day of the year.
C13_CalendarAgreement ==
    IsSome(calendar) =>
        LET c == Unwrap(calendar)
        IN  /\ c.avx2 = c.none
            /\ c.sse2 = c.none
            /\ \A simd \in Simd : c.impls[simd] = c.none
            /\ c.none[1] = c.date.year
            /\ from_calendar_date(c.none[1], c.none[2], c.none[3]) = Some(c.date)

\* 31 December of the leap year -4: day 366, found in the high half
C13_Witness ==
    /\ IsSome(calendar)
    /\ Unwrap(calendar).date = [year |-> -4, ordinal |-> 366]
    /\ Unwrap(calendar).sse2 = <<-4, 12, 31>>
    /\ Unwrap(calendar).avx2 = <<-4, 12, 31>>

\* C14: for every year in -9999..=9999 both leap-year tests of the code
\* answer as the Gregorian rule does: divisible by 4 and (not divisible by
\* 100 or divisible by 400).
C14_LeapYear ==
    IsSome(leap) =>
        LET y == Unwrap(leap).year
            gregorian == y % 4 = 0 /\ (y % 100 # 0 \/ y % 400 = 0)
        IN  /\ Unwrap(leap).format = gregorian
            /\ Unwrap(leap).impls = gregorian

\* a negative year divisible by 100 and not by 400
C14_Witness ==
    /\ IsSome(leap) /\ Unwrap(leap).year = -1900
    /\ ~Unwrap(leap).format /\ ~Unwrap(leap).impls

\* C19: decoding the milliseconds that encoding ts produced gives ts with
\* its sub-millisecond part dropped, for timestamps before 1970 too.
C19_BinaryRoundTrip ==
    IsSome(wire) =>
        Unwrap(wire).de = Some(Truncated(Unwrap(wire).ts, 3))

\* -0004-12-16 10:00:00
YearMinusFour ==
    NewDateTime(Unwrap(from_calendar_date(-4, 12, 16)),
                [hour |-> 10, minute |-> 0, second |-> 0, nanosecond |-> 0])

\* C15: a leading U+2212 (E2 88 92) before the year negates it as a leading
\* '-' does: U+2212 followed by "0004-12-16T10:00:00.000Z" parses to the
\* value of "-0004-12-16T10:00:00.000Z".
C15_UnicodeMinusYear ==
    (pc = "done" /\ b \in {Str("-0004-12-16T10:00:00.000Z"),
                           MinusSign \o Str("0004-12-16T10:00:00.000Z")})
        => ret = Some(YearMinusFour)

\* C16: a leading '+' before the year is accepted and means no sign:
\* "+2011-06-17T14:30:00.000Z" parses to the value of
\* "2011-06-17T14:30:00.000Z".
C16_PlusYear ==
    (pc = "done" /\ b \in {Str("2011-06-17T14:30:00.000Z"),
                           Str("+2011-06-17T14:30:00.000Z")})
        => ret = Some(NewDateTime(Unwrap(from_calendar_date(2011, 6, 17)),
                                  [hour |-> 14, minute |-> 30, second |-> 0,
                                   nanosecond |-> 0]))

\* C17: the string view of a formatted buffer is the buffer without its
\* first byte iff the formatted year is non-negative: the '+' of the sign
\* position is not shown and the view is one byte shorter than the buffer;
\* for a negative year the view is the whole buffer, '-' followed by the
\* four digits of the absolute year.
C17_View ==
    (IsSome(ts) /\ pc = "formatted") =>
        LET year == Unwrap(ts).year
            view == as_ref(buf)
        IN  /\ (view = Tail(buf)) <=> (year >= 0)
            /\ year >= 0 =>
                  /\ buf[1] = Ascii["+"]
                  /\ Len(view) = Len(buf) - 1
                  /\ SubSeq(view, 1, 4) = Digits(year, 4)
            /\ year < 0 =>
                  /\ view = buf
                  /\ Len(view) = Len(buf)
                  /\ view[1] = Ascii["-"]
                  /\ SubSeq(view, 2, 5) = Digits(-year, 4)

\* year 0 is shown as "0000", with no sign
C17_Witness ==
    /\ pc = "formatted" /\ IsSome(ts) /\ Unwrap(ts).year = 0
    /\ buf[1] = Ascii["+"]
    /\ SubSeq(as_ref(buf), 1, 5) = Str("0000-")
    /\ Len(as_ref(buf)) = Len(buf) - 1

\* the last second of year 9999 moved forward, the first of -9999 moved back
RangeEdgeInputs ==
    { Str("9999-12-31T23:59:59+00:01"), Str("-9999-01-01T00:00:00-00:01") }

\* C18: when applying the parsed offset would move the date-time out of
\* the years -9999..=9999, parse returns None: it does not fault, and a
\* value it returns is a date-time of the range.
C18_OffsetOutOfRange ==
    /\ (b \in RangeEdgeInputs) => (pc # "fault" /\ (pc = "done" => ret = None))
    /\ (pc \in {"done", "fault"} /\ IsSome(ts) /\ Unwrap(layout).O
          /\ checked_add(Truncated(Unwrap(ts), Unwrap(layout).P),
                         OffsetSeconds(Unwrap(utc_offset))) = None)
          => (pc = "done" /\ ret = None)
    /\ (pc = "done" /\ IsSome(ret)) =>
          /\ Unwrap(ret).year \in MinYear..MaxYear
          /\ Unwrap(ret).ordinal \in 1..days_in_year(Unwrap(ret).year)

\* None for the last second of 9999 written with +00:01
C18_Witness ==
    /\ pc = "done" /\ b = Str("9999-12-31T23:59:59+00:01")
    /\ offset = Len(b) /\ ret = None
    /\ date_time = Some(NewDateTime(Unwrap(from_calendar_date(9999, 12, 31)),
                                    [hour |-> 23, minute |-> 59, second |-> 59,
                                     nanosecond |-> 0]))

\* the number a build without verify reads from the two bytes at o, -1 when
\* there are not two bytes
SecondsRead(bb, o, chk) ==
    LET r == parse_field(bb, o, 2, 8, None, FALSE, chk)
    IN  IF r.fault = "none" /\ IsSome(r.val) THEN Unwrap(r.val) ELSE -1

\* C20: with the verify feature a seconds field of 61..=99 makes parse
\* return None while 60 is clamped; without it every seconds value above 59
\* is clamped to second 59, nanosecond 999,999,999, as a leap second is.
C20_StrictSeconds ==
    /\ [][(pc = "second" /\ TwoDigits(b, offset) >= 60) =>
            IF verify /\ TwoDigits(b, offset) >= 61
            THEN pc' = "done" /\ ret' = None
            ELSE /\ pc' = "time"
                 /\ fld'.second = 59 /\ fld'.nanosecond = 999999999
                 /\ offset' = PastSeconds(b, offset)]_vars
    /\ [][(~verify /\ pc = "second" /\ IsDigit(Get(b, offset))
             /\ SecondsRead(b, offset, overflow_checks) > 59) =>
            /\ pc' = "time"
            /\ fld'.second = 59 /\ fld'.nanosecond = 999999999]_vars
    /\ [](pc = "done" /\ b \in {Str("2021-10-17T02:03:61Z"), Str("2021-10-17T02:03:99.5Z"),
                                 Str("2021-10-17T02:03:6?Z")}
            => ret = IF verify THEN None ELSE Some(LastNano(2021, 10, 17, 2, 3)))

\* 99.5 seconds read as 59.999999999 by a build without verify
C20_Witness ==
    /\ ~verify /\ pc = "done" /\ b = Str("2021-10-17T02:03:99.5Z")
    /\ ret = Some(LastNano(2021, 10, 17, 2, 3))

\* C21 as stated: over the 40 layouts the buffer lengths range from 18
\* bytes (compact, no offset, no fraction) to 35 bytes (punctuated, offset,
\* 9 fraction digits).
C21_LengthRange ==
    (IsSome(layout) /\ pc = "formatted") =>
        LET l == Unwrap(layout)
        IN  /\ Len(buf) = StrLen(l.F, l.O, l.P)
            /\ Len(buf) \in 18..35
            /\ l = [F |-> FALSE, O |-> FALSE, P |-> 0] => Len(buf) = 18
            /\ l = [F |-> TRUE, O |-> TRUE, P |-> 9] => Len(buf) = 35

\* C21: over the 40 layouts the buffer lengths, sign byte included, range
\* from 17 bytes (compact, no offset, no fraction) to 36 bytes (punctuated,
\* offset, 9 fraction digits).
C21_LengthRange17To36 ==
    (IsSome(layout) /\ pc = "formatted") =>
        LET l == Unwrap(layout)
        IN  /\ Len(buf) = StrLen(l.F, l.O, l.P)
            /\ Len(buf) \in 17..36
            /\ l = [F |-> FALSE, O |-> FALSE, P |-> 0] => Len(buf) = 17
            /\ l = [F |-> TRUE, O |-> TRUE, P |-> 9] => Len(buf) = 36

\* the shortest buffer: sign, 8 date digits, T, 6 time digits, Z
C21_Witness ==
    /\ pc = "formatted" /\ layout = Some([F |-> FALSE, O |-> FALSE, P |-> 0])
    /\ Len(buf) = 17 /\ buf[17] = Ascii["Z"] /\ buf[10] = Ascii["T"]

\* the bytes that may stand between the date and the time
DateTimeSeparators == {Ascii["T"], Ascii["t"], Ascii[" "], Ascii["_"]}

\* C22: when the input ends right after a valid date, punctuated or
\* compact, parse returns midnight of that date; otherwise the byte after
\* the day must be 'T', 't', space or '_', and any other byte there makes
\* parse return None.
C22_DateOnly ==
    /\ [][pc = "sep" =>
            LET c == Get(b, offset)
            IN  IF c = None
                THEN /\ pc' = "done"
                     /\ ret' = Some(NewDateTime(
                                   Unwrap(from_calendar_date(fld.year, fld.month, fld.day)),
                                   MIDNIGHT))
                ELSE IF Unwrap(c) \in DateTimeSeparators
                     THEN pc' = "hour" /\ offset' = offset + 1
                     ELSE pc' = "done" /\ ret' = None]_vars
    /\ [](pc = "done" /\ b \in {Str("2021-10-17"), Str("20211017")}
            => ret = Some(NewDateTime(Unwrap(from_calendar_date(2021, 10, 17)), MIDNIGHT)))

\* the compact date alone
C22_Witness ==
    /\ pc = "done" /\ b = Str("20211017") /\ offset = 8
    /\ ret = Some(NewDateTime(Unwrap(from_calendar_date(2021, 10, 17)), MIDNIGHT))

\* C23: when the byte after the minutes and their optional ':' is not a
\* digit the seconds field is absent: second and nanosecond are 0 and the
\* zone suffix is read next at the same place, so "20211017T0203Z" parses
\* to 02:03:00.000000000.
C23_NoSeconds ==
    /\ [][(pc = "second" /\ ~IsDigit(Get(b, offset))) =>
            /\ pc' = "time" /\ offset' = offset
            /\ fld'.second = 0 /\ fld'.nanosecond = 0]_vars
    /\ [](pc = "done" /\ b = Str("20211017T0203Z")
            => ret = Some(NewDateTime(Unwrap(from_calendar_date(2021, 10, 17)),
                                      [hour |-> 2, minute |-> 3, second |-> 0,
                                       nanosecond |-> 0])))

\* the compact text without seconds
C23_Witness ==
    /\ pc = "done" /\ b = Str("20211017T0203Z") /\ IsSome(ret)
    /\ Unwrap(ret).minute = 3 /\ Unwrap(ret).second = 0 /\ Unwrap(ret).nanosecond = 0

\* the nanoseconds spelled by the first 9 of the n fraction digits at o:
\* the k-th digit counts 10^(9-k)
RECURSIVE FractionNanos(_, _, _)
FractionNanos(bb, o, n) ==
    IF n = 0 THEN 0
    ELSE FractionNanos(bb, o, n - 1)
         + (IF n <= 9 THEN (Unwrap(Get(bb, o + n - 1)) - Ascii["0"]) * Pow10(9 - n) ELSE 0)

\* C24: after a seconds field a '.' or ',' starts a fraction whose k-th
\* digit d (k = 1..9) counts d * 10^(9-k) nanoseconds; the digits after the
\* 9th are consumed and count nothing, and the nanoseconds are at most
\* 999,999,999.  ".5" is 500,000,000 ns and "2021-11-19T04:12:54.000123Z"
\* has nanosecond 123000.
C24_Fraction ==
    /\ [][(pc = "second" /\ TwoDigits(b, offset) \in 0..59
             /\ Get(b, offset + 2) \in {Some(Ascii["."]), Some(Ascii[","])}) =>
            /\ pc' = "time"
            /\ offset' = PastSeconds(b, offset)
            /\ fld'.second = TwoDigits(b, offset)
            /\ fld'.nanosecond = FractionNanos(b, offset + 3, offset' - (offset + 3))
            /\ fld'.nanosecond <= 999999999]_vars
    /\ [](fld.nanosecond <= 999999999)
    /\ [](pc = "time" /\ b = Str("2021-10-17T02:03:01.5+04:30")
            => fld.nanosecond = 500000000)
    /\ [](pc = "done" /\ b \in {Str("2021-11-19T04:12:54.000123Z"),
                                 Str("2021-11-19T04:12:54.0001230004567Z")}
            => ret = Some(NewDateTime(Unwrap(from_calendar_date(2021, 11, 19)),
                                      [hour |-> 4, minute |-> 12, second |-> 54,
                                       nanosecond |-> 123000])))

\* thirteen fraction digits: the last four are read and count nothing
C24_Witness ==
    /\ pc = "done" /\ b = Str("2021-11-19T04:12:54.0001230004567Z")
    /\ offset = Len(b) /\ IsSome(ret) /\ Unwrap(ret).nanosecond = 123000

\* the input with the three bytes at o replaced by an ASCII '-'
WithAsciiMinus(bb, o) ==
    SubSeq(bb, 1, o) \o Str("-") \o SubSeq(bb, o + 4, Len(bb))

\* C25: in the zone position U+2212 (E2 88 92) is read as an ASCII '-' is:
\* the zone step ends as it does on the same input written with '-', two
\* bytes further on; a byte E2 not followed by 88 92 makes parse return None.
C25_UnicodeMinusZone ==
    /\ [][(pc = "zone" /\ Get(b, offset) = Some(226)) =>
            IF GetRange(b, offset + 1, offset + 3) = Some(<<136, 146>>)
            THEN LET r == zone(WithAsciiMinus(b, offset), offset, Unwrap(date_time),
                               verify, overflow_checks)
                 IN  IF r.fault # "none" THEN pc' = "fault" /\ fault' = r.fault
                     ELSE IF r.ret THEN pc' = "done" /\ ret' = None
                     ELSE /\ pc' = "end"
                          /\ date_time' = Some(r.date_time)
                          /\ offset' = r.offset + 2
            ELSE pc' = "done" /\ ret' = None]_vars
    /\ [](pc = "done"
            /\ b \in {Str("2021-10-17T02:03:01-04:00"),
                      Str("2021-10-17T02:03:01") \o MinusSign \o Str("04:00")}
            => /\ ret = date_time
               /\ ret = Some(zone(Str("2021-10-17T02:03:01-04:00"), 19,
                                  NewDateTime(Unwrap(from_calendar_date(2021, 10, 17)),
                                              [hour |-> 2, minute |-> 3, second |-> 1,
                                               nanosecond |-> 0]),
                                  verify, overflow_checks).date_time))

\* the fixture with U+2212 before 04:00 parsed, the time moved
C25_Witness ==
    /\ pc = "done" /\ b = Str("2021-10-17T02:03:01") \o MinusSign \o Str("04:00")
    /\ IsSome(ret) /\ Unwrap(ret).hour # 2 /\ offset = Len(b)

\* the number a chunk of decimal digits spells
RECURSIVE Spelled(_)
Spelled(s) ==
    IF s = << >> THEN 0
    ELSE Spelled(SubSeq(s, 1, Len(s) - 1)) * 10 + (s[Len(s)] - Ascii["0"])

\* C26: parse_2 and parse_4 return the number a chunk of ASCII digits
\* spells; with verify they return None exactly when some byte is outside
\* '0'..='9'; overflows2(x) and overflows4(x) are true exactly when some
\* byte of x is greater than 9.
C26_DigitDecoding ==
    IsSome(decoded) =>
        LET d == Unwrap(decoded)
        IN  IF "s" \in DOMAIN d
            THEN LET digits == \A k \in 1..Len(d.s) : d.s[k] \in Decimals
                 IN  /\ d.parsed.fault = "none"
                     /\ digits => d.parsed.val = Some(Spelled(d.s))
                     /\ verify => ((d.parsed.val = None) <=> ~digits)
            ELSE d.overflows <=> (\E k \in 1..Len(d.x) : d.x[k] > 9)

\* the four bytes of the year at the cursor, when the input has them
YearChunk ==
    IF offset + 4 <= Len(b) THEN SubSeq(b, offset + 1, offset + 4) ELSE << >>

\* C27: with verify, a year chunk that holds a byte below '0' makes parse
\* return None: the subtraction of 0x30303030 in parse_4 does not overflow.
C27_NoUnderflow ==
    [][(/\ pc = "year" /\ verify
        /\ \E k \in 1..Len(YearChunk) : YearChunk[k] < Ascii["0"])
       => (pc' = "done" /\ ret' = None /\ fault' = "none")]_vars

\* the place of the offset hours when the byte at o opens an offset: after
\* '+' or '-', or after the three bytes of U+2212; -1 when none opens
OffsetStart(bb, o) ==
    IF Get(bb, o) \in {Some(Ascii["+"]), Some(Ascii["-"])} THEN o + 1
    ELSE IF GetRange(bb, o, o + 3) = Some(MinusSign) THEN o + 3
    ELSE -1

\* the place of the offset minutes: after the hours and a ':' if one follows
OffsetMinuteStart(bb, o) ==
    IF Get(bb, OffsetStart(bb, o) + 2) = Some(Ascii[":"])
    THEN OffsetStart(bb, o) + 3 ELSE OffsetStart(bb, o) + 2

\* C28: an offset whose hours are above 23 or whose minutes are above 59
\* makes parse return None: it is not applied to the time.
C28_OffsetFieldRange ==
    [][(/\ pc = "zone" /\ OffsetStart(b, offset) >= 0
        /\ \/ TwoDigits(b, OffsetStart(b, offset)) > 23
           \/ TwoDigits(b, OffsetMinuteStart(b, offset)) > 59)
       => (pc' = "done" /\ ret' = None)]_vars

\* the fields that parse! reads with an eat_byte: their width, and the byte
FieldWidth == [year |-> 4, month |-> 2, hour |-> 2, minute |-> 2]
FieldEats ==
    [year |-> Ascii["-"], month |-> Ascii["-"], hour |-> Ascii[":"], minute |-> Ascii[":"]]

\* 2021-10-17 at the given time of day
OnOctober17(hour, minute, second) ==
    NewDateTime(Unwrap(from_calendar_date(2021, 10, 17)),
                [hour |-> hour, minute |-> minute, second |-> second,
                 nanosecond |-> 0])

\* C29: each of the four optional separators is consumed when it is the
\* byte after its field, whatever the other separators are: an input with
\* any of them left out parses to the value of the fully punctuated input,
\* and "2021-10-17T02:03:Z" parses to the value of "2021-10-17T02:03Z".
C29_Separators ==
    /\ [][(pc \in DOMAIN FieldWidth /\ pc' \notin {"done", "fault"}) =>
            offset' = offset + FieldWidth[pc]
                      + I(Get(b, offset + FieldWidth[pc]) = Some(FieldEats[pc]))]_vars
    /\ []((pc = "done" /\ b \in Mixed) => ret = Some(OnOctober17(2, 3, 1)))
    /\ []((pc = "done" /\ b \in MinuteColon) => ret = Some(OnOctober17(2, 3, 0)))

C29_Witness ==
    pc = "done" /\ b = Str("2021-1017T02:0301Z") /\ ret = Some(OnOctober17(2, 3, 1))

\* the write_num! calls of do_format in their order, for the time t with the
\* calendar date cal, the offset off and the layout's O and P
WriteNumCalls(t, cal, off, O, P) ==
    << [value |-> Abs(cal[1]), len |-> 4, max |-> 9999],
       [value |-> cal[2], len |-> 2, max |-> 12],
       [value |-> cal[3], len |-> 2, max |-> 31],
       [value |-> t.hour, len |-> 2, max |-> 59],
       [value |-> t.minute, len |-> 2, max |-> 59],
       [value |-> t.second, len |-> 2, max |-> 59] >>
    \o (IF P >= 1 /\ P <= 9
        THEN << [value |-> t.nanosecond \div Pow10(9 - P), len |-> P, max |-> Pow10(P) - 1] >>
        ELSE << >>)
    \o (IF O
        THEN << [value |-> Abs(off.hours), len |-> 2, max |-> 23],
                [value |-> Abs(off.minutes), len |-> 2, max |-> 59] >>
        ELSE << >>)

RECURSIVE SumLen(_)
SumLen(calls) ==
    IF calls = << >> THEN 0 ELSE Head(calls).len + SumLen(Tail(calls))

\* C30: for every layout, every date-time with |year| <= 9999 and every
\* offset with |hours| <= 23 and |minutes| <= 59, each value handed to
\* write_num! is at most the maximum of its assume! and has no more digits
\* than the field; no write falls outside the buffer, the fields fill the
\* digit positions of the skeleton, and no other byte than a digit or sign
\* position is changed.
C30_WriteNum ==
    (IsSome(ts) /\ pc \in {"formatted", "fault"}) =>
        \A l \in {Unwrap(layout)} :
        \A skeleton \in {template(l.F, l.O, l.P)} :
        \A calls \in {WriteNumCalls(Unwrap(ts), time_to_calendar_date(Unwrap(ts)),
                                    Unwrap(utc_offset), l.O, l.P)} :
            /\ \A k \in DOMAIN calls :
                  /\ calls[k].value >= 0 /\ calls[k].value <= calls[k].max
                  /\ calls[k].max < Pow10(calls[k].len)
            /\ fault = "none" /\ pc = "formatted"
            /\ Len(buf) = Len(skeleton)
            /\ Cardinality({k \in 1..Len(skeleton) : skeleton[k] = Ascii["0"]}) = SumLen(calls)
            /\ \A k \in 1..Len(buf) :
                  buf[k] # skeleton[k] => skeleton[k] \in {Ascii["0"], Ascii["+"]}

\* the largest value of every field, in the compact layout with an offset
\* and nine fraction digits
C30_Witness ==
    /\ pc = "formatted" /\ layout = Some([F |-> FALSE, O |-> TRUE, P |-> 9])
    /\ utc_offset = Some([hours |-> 23, minutes |-> 59])
    /\ buf = Str("+99991231T235959.999999999+23:59")
=============================================================================
